---- MODULE Spec2Model ----
(***************************************************************************)
(* Broker wire-protocol client layer (MT5, MT4 and Interactive Brokers     *)
(* adapters) and the FXIFY risk-gated MT5 adapter of saitrapp-backend.     *)
(*                                                                         *)
(* The adapter object and the sockets it created are held in the record    *)
(* `ad`; every handler of the source is an operator from adapter record to *)
(* adapter record, and every action of Next applies one handler.           *)
(* Timers are untimed: an armed timer may fire at any moment.              *)
(***************************************************************************)
EXTENDS Integers, Sequences, FiniteSets, TLC

\* ---------------------------------------------------------------- bounds
MaxSockets == 2      \* sockets one adapter instance creates in a run
MaxReq == 2          \* request ids allocated in a run
MaxDisc == 1         \* disconnect() calls made by the user in a run
MaxFrames == 3       \* frames the peer writes to one socket in a run
MaxPos == 2          \* open positions a GET_POSITIONS response lists

Sockets == 1..MaxSockets
\* closeAllPositions needs one request per position on top of the others
ReqIds == 1..(MaxReq + MaxPos)
Positions == 1..MaxPos

Kinds == {"MT5", "MT4", "IB"}

\* commands sent by the capability methods modelled here
MethodCommands == {"GET_ACCOUNT_INFO"}
\* what a response frame of the bridge can carry
Responses == {"ok", "fail", "error"}

VARIABLES
  ad,   \* the broker adapter and the sockets it created
  fx,   \* FXIFYModeManager with its rules engine and drawdown monitor
  gt    \* the risk-gated adapter's calls in flight, and the UTC calendar day

vars == <<ad, fx, gt>>

\* ------------------------------------------------- constructor constants
maxReconnectAttempts(k) == IF k = "IB" THEN 3 ELSE 5
reconnectDelay(k) == IF k = "MT5" THEN 2000 ELSE 5000

\* ------------------------------------------------------------ constructor
NewAdapter(k, creds) ==
  [ kind |-> k,
    config |-> creds,                   \* the config the user connects with carries credentials
    \* fields of the adapter object
    connected |-> FALSE,
    socket |-> 0,                       \* this.socket, 0 = null
    callbacks |-> {},                   \* keys of this.callbacks
    nextRequestId |-> 1,
    reconnectAttempts |-> 0,
    explicitDisconnect |-> FALSE,       \* MT4 explicitDisconnect, IB manualDisconnect
    messageQueue |-> <<>>,              \* MT4 outbound queue (request ids)
    processingQueue |-> FALSE,
    connectionConfig |-> 0,             \* MT4: 0 = null, 1 = without password, 2 = with password
    messageBuffer |-> <<>>,             \* IB inbound buffer
    positions |-> [p \in Positions |-> 0],  \* position cache: ticket -> data, 0 = no entry
    orders |-> [p \in Positions |-> 0],     \* order cache
    accountInfo |-> 0,                  \* account snapshot, 0 = none yet
    \* runtime objects the adapter created
    nSockets |-> 0,
    sockSt |-> [s \in Sockets |-> "none"],
    endPending |-> {},                  \* end() called while still connecting
    ctimer |-> {},                      \* armed connection timeouts
    rtimers |-> {},                     \* armed reconnect timers (by closed socket)
    rtDelay |-> [s \in Sockets |-> 0],
    ftimers |-> 0,                      \* armed MT4 force-close timers
    connectRes |-> [s \in Sockets |-> "none"], \* promise of the connect() call
    discWait |-> [s \in Sockets |-> 0], \* disconnect() promises waiting for 'close'
    wire |-> {},                        \* request ids whose frame was written
    \* history
    reqSock |-> [r \in ReqIds |-> 0],   \* socket the frame was written to
    reqCmd |-> [r \in ReqIds |-> "none"],
    reqOwner |-> [r \in ReqIds |-> 0],  \* connect() call that sent AUTH/AUTHORIZE
    outcome |-> [r \in ReqIds |-> "none"],
    settles |-> [r \in ReqIds |-> 0],   \* times resolve/reject was invoked
    answered |-> {},                    \* frames the bridge has answered
    sockOrigin |-> [s \in Sockets |-> "none"], \* "user" or "auto"
    sockPostDisc |-> [s \in Sockets |-> FALSE],
    sockByDisc |-> [s \in Sockets |-> FALSE],  \* disconnect() ended this socket
    sockWasConn |-> [s \in Sockets |-> FALSE], \* 'connect' handler set connected
    discCalled |-> FALSE,               \* disconnect() since the last explicit connect()
    discCalls |-> 0,
    discEnded |-> FALSE,                \* a disconnect() call has ended a socket
    peerWrote |-> <<>>,                 \* bytes the peer wrote to the socket
    delivered |-> 0,                    \* how many of them 'data' events have delivered
    parsed |-> <<>>,                    \* messages handed to JSON.parse / _processMessage
    \* what the bridge last said of each position and order (0 = nothing, or
    \* closed) and of the account
    pushed |-> [positions |-> [p \in Positions |-> 0], orders |-> [p \in Positions |-> 0],
                account |-> 0],
    userDisc |-> {} ]                   \* sockets a user disconnect() made while Connected waits on

\* ------------------------------------------------- connection state (4.1)
AuthCommands == {"AUTHORIZE", "AUTH"}

AuthPending(a) == \E r \in a.callbacks : a.reqCmd[r] \in AuthCommands

State(a) ==
  IF a.connected THEN (IF AuthPending(a) THEN "Authenticating" ELSE "Connected")
  ELSE IF AuthPending(a) THEN "Authenticating"
  ELSE IF \E s \in Sockets : a.sockSt[s] = "connecting" THEN "Connecting"
  ELSE IF a.rtimers # {} THEN "Reconnecting"
  ELSE IF a.nSockets = 0 THEN "Idle"
  ELSE "Closed"

\* ------------------------------------------------------ socket primitives
\* socket.destroy(): the 'close' event follows without the peer's help
destroy(a, s) ==
  IF s # 0 /\ a.sockSt[s] \in {"connecting", "open", "ended"}
  THEN [a EXCEPT !.sockSt[s] = "destroyed"]
  ELSE a

\* socket.end(): half-close; 'close' follows once the peer closes its side
end(a, s) ==
  IF s = 0 THEN a
  ELSE IF a.sockSt[s] = "open" THEN [a EXCEPT !.sockSt[s] = "ended"]
  ELSE IF a.sockSt[s] = "connecting" THEN [a EXCEPT !.endPending = @ \cup {s}]
  ELSE a

\* socket.write(frame of request r) on this.socket
write(a, r) ==
  IF a.socket # 0 /\ a.sockSt[a.socket] \in {"connecting", "open"}
     /\ a.socket \notin a.endPending
  THEN [a EXCEPT !.wire = @ \cup {r}, !.reqSock[r] = a.socket]
  ELSE a

\* settle the promise of a connect() call (a promise settles once)
settleConnect(a, s, how) ==
  IF s # 0 /\ a.connectRes[s] = "pending"
  THEN [a EXCEPT !.connectRes[s] = how]
  ELSE a

\* -------------------------------------------------------------- disconnect
\* disconnect() of the three adapters; an early return leaves the adapter as it is
disconnect(a) ==
  IF ~a.connected \/ a.socket = 0 THEN a
  ELSE LET s == a.socket
           b == [a EXCEPT !.discWait[s] = @ + 1, !.sockByDisc[s] = TRUE,
                          !.discEnded = TRUE]
       IN CASE a.kind = "MT5" ->
                 end([b EXCEPT !.reconnectAttempts = maxReconnectAttempts("MT5")], s)
            [] a.kind = "MT4" ->
                 \* DISCONNECT frame consumes a request id; 5 s force-close timer armed
                 end([b EXCEPT !.explicitDisconnect = TRUE,
                               !.nextRequestId = @ + 1,
                               !.ftimers = @ + 1], s)
            [] a.kind = "IB" ->
                 end([b EXCEPT !.explicitDisconnect = TRUE], s)

\* ------------------------------------------------------------- correlator
\* MT4 _processQueue: nothing is written unless connected; otherwise the queue
\* is drained in order (the 5 ms pauses between writes are not modelled)
RECURSIVE drain(_)
drain(a) ==
  IF a.messageQueue = <<>> THEN a
  ELSE drain(write([a EXCEPT !.messageQueue = Tail(@)], Head(a.messageQueue)))

_processQueue(a) ==
  IF a.processingQueue \/ a.messageQueue = <<>> \/ ~a.connected THEN a
  ELSE drain(a)

\* the guard of _sendCommand: TRUE when the call stores a pending request
canSend(a, cmd) ==
  CASE a.kind = "MT5" -> a.connected /\ a.socket # 0
    [] a.kind = "MT4" -> a.connected \/ cmd = "AUTH"
    [] a.kind = "IB" -> FALSE

\* _sendCommand(command): allocate the id, store the pending request, arm its
\* timer and write (MT5) or queue (MT4) the frame.  The timer is never cleared:
\* it is armed exactly for the ids in callbacks as far as its effect goes,
\* because firing for an id that left the map does nothing and ids are not reused.
_sendCommand(a, cmd, owner) ==
  IF ~canSend(a, cmd) THEN a
  ELSE LET r == a.nextRequestId
           b == [a EXCEPT !.nextRequestId = r + 1,
                          !.callbacks = @ \cup {r},
                          !.reqCmd[r] = cmd,
                          !.reqOwner[r] = owner,
                          !.outcome[r] = "pending"]
       IN IF a.kind = "MT5" THEN write(b, r)
          ELSE _processQueue([b EXCEPT !.messageQueue = Append(@, r)])

\* invoke the stored resolve/reject of request r
settle(a, r, how) ==
  [a EXCEPT !.settles[r] = @ + 1,
            !.outcome[r] = IF @ = "pending" THEN how ELSE @]

\* the command and owner of a request are history that is dropped once its
\* continuation has run
forget(a, r) == [a EXCEPT !.reqCmd[r] = "none", !.reqOwner[r] = 0]

\* MT4 _completeConnection: TERMINAL_INFO is sent before connected is set, so
\* _sendCommand throws, the socket is destroyed and resolve is never called
_completeConnection(a, s) ==
  IF canSend(a, "TERMINAL_INFO")
  THEN _sendCommand(a, "TERMINAL_INFO", s)
  ELSE destroy(a, a.socket)

\* the then/catch attached to the AUTHORIZE (MT5) or AUTH (MT4) request of
\* connect() call s, run when that request settles with `how`
authContinuation(a, s, how) ==
  IF a.kind = "MT5"
  THEN IF how = "ok" THEN settleConnect(a, s, "resolved")
       ELSE settleConnect(disconnect(a), s, "rejected")
  ELSE IF how = "ok" THEN _completeConnection(a, s)
       ELSE settleConnect(destroy(a, a.socket), s, "rejected")

\* microtasks run after a handler settled the requests in rs with `how`
RECURSIVE continuations(_, _, _)
continuations(a, rs, how) ==
  IF rs = {} THEN a
  ELSE LET r == CHOOSE x \in rs : \A y \in rs : x <= y
           b == IF a.reqCmd[r] \in AuthCommands
                THEN authContinuation(a, a.reqOwner[r], how)
                ELSE a
       IN continuations(forget(b, r), rs \ {r}, how)

RECURSIVE settleAll(_, _, _)
settleAll(a, rs, how) ==
  IF rs = {} THEN a
  ELSE LET r == CHOOSE x \in rs : TRUE
       IN settleAll(settle(a, r, how), rs \ {r}, how)

\* ---------------------------------------------------------------- connect
\* connect(config): returns at once when connected, else opens a new socket,
\* arms its connection timeout and installs the handlers below on it
connect(a, origin) ==
  IF a.connected THEN a
  ELSE LET s == a.nSockets + 1
       IN [a EXCEPT !.nSockets = s,
                    !.socket = s,
                    !.sockSt[s] = "connecting",
                    !.ctimer = @ \cup {s},
                    !.connectRes[s] = "pending",
                    !.connectionConfig = IF a.kind = "MT4" THEN (IF a.config THEN 2 ELSE 1) ELSE @,
                    !.sockOrigin[s] = origin,
                    !.sockPostDisc[s] = a.discCalled]

\* onConnect that leaves reconnectAttempts as disconnect() set it
onConnectKeepAttempts(a, s) ==
  LET a0 == [a EXCEPT !.ctimer = @ \ {s},
                      !.sockSt[s] = IF s \in a.endPending THEN "ended" ELSE "open",
                      !.endPending = @ \ {s}]
  IN CASE a.kind = "MT5" ->
            LET a1 == [a0 EXCEPT !.connected = TRUE,
                                 !.sockWasConn[s] = TRUE]
            IN IF a.config THEN _sendCommand(a1, "AUTHORIZE", s)
               ELSE settleConnect(a1, s, "resolved")
       [] a.kind = "MT4" ->
            IF a.config THEN _sendCommand(a0, "AUTH", s)
            ELSE _completeConnection(a0, s)
       [] a.kind = "IB" ->
            a0

\* socket 'connect' handler of connect() call s
onConnect(a, s) ==
  LET a0 == [a EXCEPT !.ctimer = @ \ {s},
                      !.sockSt[s] = IF s \in a.endPending THEN "ended" ELSE "open",
                      !.endPending = @ \ {s}]
  IN CASE a.kind = "MT5" ->
            LET a1 == [a0 EXCEPT !.connected = TRUE,
                                 !.reconnectAttempts = 0,
                                 !.sockWasConn[s] = TRUE]
            IN IF a.config THEN _sendCommand(a1, "AUTHORIZE", s)
               ELSE settleConnect(a1, s, "resolved")
       [] a.kind = "MT4" ->
            IF a.config THEN _sendCommand(a0, "AUTH", s)
            ELSE _completeConnection(a0, s)
       [] a.kind = "IB" ->
            \* _sendRawMessage throws 'Not connected' before connected is set
            a0

\* socket 'error' handler of connect() call s (the 'close' event follows)
onError(a, s) ==
  LET b == [a EXCEPT !.sockSt[s] = "destroyed"]
  IN IF ~a.connected
     THEN settleConnect([b EXCEPT !.ctimer = @ \ {s}], s, "rejected")
     ELSE b

\* the connection timeout of connect() call s fires: it destroys this.socket
onConnectionTimeout(a, s) ==
  settleConnect(destroy([a EXCEPT !.ctimer = @ \ {s}], a.socket), s, "rejected")

\* onClose without callbacks.clear() and without the rejections
onCloseKeep(a, s) ==
  LET wasConnected == a.connected
      a1 == [a EXCEPT !.sockSt[s] = "closed", !.connected = FALSE]
      a2 == IF wasConnected /\ ~a.explicitDisconnect
               /\ (a.kind = "MT4" => a.connectionConfig # 0)
               /\ a.reconnectAttempts < maxReconnectAttempts(a.kind)
            THEN [a1 EXCEPT !.reconnectAttempts = @ + 1,
                            !.rtimers = @ \cup {s},
                            !.rtDelay[s] = reconnectDelay(a.kind) * (a.reconnectAttempts + 1)]
            ELSE a1
  IN [a2 EXCEPT !.discWait[s] = 0, !.userDisc = @ \ {s},
                !.sockByDisc[s] = FALSE, !.sockWasConn[s] = FALSE,
                !.sockOrigin[s] = "none", !.sockPostDisc[s] = FALSE]

\* socket 'close' handler of connect() call s (MT5 and IB inline, MT4
\* _handleDisconnect), followed by the once('close') listeners of disconnect()
onClose(a, s) ==
  LET wasConnected == a.connected
      pend == a.callbacks
      a1 == [settleAll(a, pend, "closed") EXCEPT !.sockSt[s] = "closed",
                                                  !.connected = FALSE,
                                                  !.callbacks = {}]
      a2 == IF wasConnected /\ ~a.explicitDisconnect
               /\ (a.kind = "MT4" => a.connectionConfig # 0)
               /\ a.reconnectAttempts < maxReconnectAttempts(a.kind)
            THEN [a1 EXCEPT !.reconnectAttempts = @ + 1,
                            !.rtimers = @ \cup {s},
                            !.rtDelay[s] = reconnectDelay(a.kind) * (a.reconnectAttempts + 1)]
            ELSE a1
      \* the history of a closed socket is dropped
      a3 == [a2 EXCEPT !.discWait[s] = 0, !.userDisc = @ \ {s},
                       !.sockByDisc[s] = FALSE, !.sockWasConn[s] = FALSE,
                       !.sockOrigin[s] = "none", !.sockPostDisc[s] = FALSE]
  IN continuations(a3, pend, "closed")

\* onData matching by arrival order: the frame settles the oldest pending request
onDataFifo(a, r, resp) ==
  IF r \in a.callbacks
  THEN LET o == CHOOSE x \in a.callbacks : \A y \in a.callbacks : x <= y
           how == IF resp = "error" THEN "error" ELSE "resolved"
       IN continuations(settle([a EXCEPT !.callbacks = @ \ {o}], o, how), {o}, resp)
  ELSE a

\* socket 'data' handler on one frame echoing request id r: reject on an error
\* field, resolve with the response otherwise (resp = "fail": status not ok)
onData(a, r, resp) ==
  IF r \in a.callbacks
  THEN LET how == IF resp = "error" THEN "error" ELSE "resolved"
       IN continuations(settle([a EXCEPT !.callbacks = @ \ {r}], r, how), {r}, resp)
  ELSE a

\* a request timeout that rejects every pending request
onRequestTimeoutAll(a, r) ==
  IF r \in a.callbacks
  THEN continuations(settleAll([a EXCEPT !.callbacks = {}], a.callbacks, "timeout"),
                     a.callbacks, "timeout")
  ELSE a

\* the 30 s timer of request r fires
onRequestTimeout(a, r) ==
  IF r \in a.callbacks
  THEN continuations(settle([a EXCEPT !.callbacks = @ \ {r}], r, "timeout"), {r}, "timeout")
  ELSE a

\* a capability method (getAccountInfo, placeMarketOrder, ...): the connected
\* check, then _sendCommand
method(a, cmd) ==
  IF ~a.connected THEN a
  ELSE _sendCommand(a, cmd, 0)

\* ------------------------------------------------------------- inbound data
\* The inbound stream is a sequence of bytes; three kinds of byte matter:
\* the delimiter ('\n' for MT5 and MT4, '\0' for IB), the two halves of a
\* response object ( '{"requestId":' and 'r}' for request id r ), and text
\* that is not part of any well-formed message.
Delimiter == 0
Opening == -2
Garbage == -1

\* String.prototype.split(delimiter): the pieces between delimiters, the last
\* one being what follows the last delimiter (possibly empty)
RECURSIVE split(_, _, _)
split(text, cur, acc) ==
  IF text = <<>> THEN Append(acc, cur)
  ELSE IF Head(text) = Delimiter THEN split(Tail(text), <<>>, Append(acc, cur))
  ELSE split(Tail(text), Append(cur, Head(text)), acc)

\* JSON.parse(message) followed by response.requestId: the id, or 0 when
\* JSON.parse throws
requestIdOf(message) ==
  IF Len(message) = 2 /\ message[1] = Opening /\ message[2] \in ReqIds
  THEN message[2] ELSE 0

\* the body of the inner try block on a response echoing request id r
resolveResponse(a, r) ==
  IF r \in a.callbacks
  THEN settle([a EXCEPT !.callbacks = @ \ {r}], r, "resolved")
  ELSE a

\* a handler in which a message that fails to parse tears the socket down
processMessageFatal(c, message) ==
  IF message = <<>> THEN c
  ELSE IF requestIdOf(message) = 0
  THEN [ad |-> destroy([c.ad EXCEPT !.parsed = Append(@, message)], c.ad.socket),
        done |-> c.done]
  ELSE [ad |-> resolveResponse([c.ad EXCEPT !.parsed = Append(@, message)],
                               requestIdOf(message)),
        done |-> IF requestIdOf(message) \in c.ad.callbacks
                 THEN Append(c.done, requestIdOf(message)) ELSE c.done]

\* one round of messages.forEach in the MT5 'data' handler and of the for loop
\* in MT4 _handleData: an empty message is skipped, a message that fails to
\* parse is logged inside the inner try/catch; done lists the requests settled
processMessage(c, message) ==
  IF message = <<>> THEN c
  ELSE IF requestIdOf(message) = 0
  THEN [ad |-> [c.ad EXCEPT !.parsed = Append(@, message)], done |-> c.done]
  ELSE [ad |-> resolveResponse([c.ad EXCEPT !.parsed = Append(@, message)],
                               requestIdOf(message)),
        done |-> IF requestIdOf(message) \in c.ad.callbacks
                 THEN Append(c.done, requestIdOf(message)) ELSE c.done]

RECURSIVE processMessages(_, _)
processMessages(c, messages) ==
  IF messages = <<>> THEN c
  ELSE processMessages(processMessage(c, Head(messages)), Tail(messages))

\* the microtasks of the requests a 'data' event resolved, in that order
RECURSIVE resolvedContinuations(_, _)
resolvedContinuations(a, done) ==
  IF done = <<>> THEN a
  ELSE resolvedContinuations(continuations(a, {Head(done)}, "ok"), Tail(done))

\* IB _processMessagesFromBuffer: all pieces but the last are complete
\* messages; _processMessage changes no field of the adapter
RECURSIVE _processMessagesFromBuffer(_, _, _)
_processMessagesFromBuffer(a, messages, i) ==
  IF i >= Len(messages) THEN [a EXCEPT !.messageBuffer = messages[Len(messages)]]
  ELSE _processMessagesFromBuffer(
         IF messages[i] = <<>> THEN a ELSE [a EXCEPT !.parsed = Append(@, messages[i])],
         messages, i + 1)

finish(c) == resolvedContinuations(c.ad, c.done)

\* the 'data' handler on one chunk
handleData(a, data) ==
  IF a.kind = "IB"
  THEN _processMessagesFromBuffer(a, split(a.messageBuffer \o data, <<>>, <<>>), 1)
  ELSE finish(processMessages([ad |-> a, done |-> <<>>], split(data, <<>>, <<>>)))

\* ============================================================ FXIFY engine
\* JavaScript numbers are modelled as exact fractions [n, d] with d >= 0;
\* d = 0 stands for Infinity (n > 0) and NaN (n = 0).  Values kept in the state
\* are in lowest terms (Frac); intermediate results need not be.
RECURSIVE GCD(_, _)
GCD(a, b) == IF b = 0 THEN a ELSE GCD(b, a % b)

Abs(x) == IF x < 0 THEN -x ELSE x

Reduce(n, d, g) == [n |-> n \div g, d |-> d \div g]

\* n / d for d >= 0
Frac(n, d) ==
  IF d = 0 THEN [n |-> IF n > 0 THEN 1 ELSE 0, d |-> 0]
  ELSE Reduce(n, d, GCD(Abs(n), d))

Num(i) == [n |-> i, d |-> 1]
NaN == [n |-> 0, d |-> 0]
IsNaN(x) == x.d = 0 /\ x.n = 0
IsInf(x) == x.d = 0 /\ x.n # 0

Plus(x, y) ==
  IF IsNaN(x) \/ IsNaN(y) THEN NaN
  ELSE IF IsInf(x) \/ IsInf(y) THEN [n |-> 1, d |-> 0]
  ELSE [n |-> x.n * y.d + y.n * x.d, d |-> x.d * y.d]

\* x / y for y >= 0
Div(x, y) ==
  IF IsNaN(x) \/ IsNaN(y) THEN NaN
  ELSE [n |-> x.n * y.d, d |-> x.d * y.n]

\* x > y and x >= y; every comparison with NaN is false
Gt(x, y) == ~IsNaN(x) /\ ~IsNaN(y) /\ x.n * y.d > y.n * x.d
Ge(x, y) == ~IsNaN(x) /\ ~IsNaN(y) /\ x.n * y.d >= y.n * x.d

\* Math.max(0, x)
Max0(x) == IF IsNaN(x) THEN NaN ELSE IF Gt(x, Num(0)) THEN x ELSE Num(0)

\* a value used as a condition: 0 and NaN are falsy
Truthy(x) == ~IsNaN(x) /\ x.n # 0

\* ------------------------------------------------------------ calendar
MaxDay == 2          \* UTC calendar days a run spans; day 1 is a Friday
Days == 1..MaxDay

\* Date.getUTCDay(): 0 = Sunday ... 6 = Saturday
getUTCDay(day) == (day + 4) % 7

\* ------------------------------------------------------------ profiles
NoProfile ==
  [id |-> 0, maxDailyDrawdown |-> Num(0), maxTotalDrawdown |-> Num(0),
   tradeSizeLimit |-> 0, allowNewsTrading |-> FALSE]

\* the profiles loadProfiles() found; volumes are in hundredths of a lot and
\* tradeSizeLimit 0 stands for null.  The store maps an id to its profile,
\* NoProfile where it has none; id 3 is the id createProfile generates
LoadedProfiles ==
  [i \in {1, 2, 3} |->
     CASE i = 1 ->
            [id |-> 1, maxDailyDrawdown |-> Frac(3, 100), maxTotalDrawdown |-> Frac(6, 100),
             tradeSizeLimit |-> 0, allowNewsTrading |-> FALSE]
       [] i = 2 ->
            [id |-> 2, maxDailyDrawdown |-> Frac(5, 100), maxTotalDrawdown |-> Frac(10, 100),
             tradeSizeLimit |-> 200, allowNewsTrading |-> TRUE]
       [] OTHER -> NoProfile]

\* ------------------------------------------------------- DrawdownMonitor
Absent == [n |-> 0, d |-> -1]       \* no entry in the dailyDrawdowns map

NewMonitor ==
  [ dailyDrawdowns |-> [d \in Days |-> Absent],
    maxDailyDrawdown |-> Frac(3, 100),
    totalDrawdown |-> Num(0),
    maxTotalDrawdown |-> Frac(6, 100),
    initialBalance |-> 0,
    startOfDayBalance |-> 0,
    currentBalance |-> 0,
    currentEquity |-> 0,
    peakBalance |-> 0,
    lastUpdate |-> 1 ]

registerDayStart(m, today) ==
  [m EXCEPT !.startOfDayBalance = m.currentBalance,
            !.dailyDrawdowns[today] = Num(0)]

\* drawdowns in which the total adds up from call to call
_calculateDrawdownsCumulative(m, today) ==
  LET daily == IF m.startOfDayBalance > 0
               THEN Max0(Frac(m.startOfDayBalance - m.currentEquity, m.startOfDayBalance))
               ELSE Num(0)
      total == IF m.peakBalance > 0
               THEN Max0(Frac(m.peakBalance - m.currentEquity, m.peakBalance))
               ELSE Num(0)
      sum == Plus(m.totalDrawdown, total)
  IN [m EXCEPT !.dailyDrawdowns[today] = daily, !.totalDrawdown = Frac(sum.n, sum.d)]

_calculateDrawdowns(m, today) ==
  LET daily == IF m.startOfDayBalance > 0
               THEN Max0(Frac(m.startOfDayBalance - m.currentEquity, m.startOfDayBalance))
               ELSE Num(0)
      total == IF m.peakBalance > 0
               THEN Max0(Frac(m.peakBalance - m.currentEquity, m.peakBalance))
               ELSE IF m.initialBalance > 0
               THEN Max0(Frac(m.initialBalance - m.currentEquity, m.initialBalance))
               ELSE m.totalDrawdown
  IN [m EXCEPT !.dailyDrawdowns[today] = daily, !.totalDrawdown = total]

monitorInitialize(m, initialBalance, maxDaily, maxTotal, today) ==
  registerDayStart(
    [m EXCEPT !.initialBalance = initialBalance,
              !.startOfDayBalance = initialBalance,
              !.currentBalance = initialBalance,
              !.currentEquity = initialBalance,
              !.peakBalance = initialBalance,
              !.maxDailyDrawdown = maxDaily,
              !.maxTotalDrawdown = maxTotal,
              !.dailyDrawdowns = [d \in Days |-> Absent]],
    today)

\* an update that takes the latest balance as the peak
monitorUpdateBalanceLastPeak(m, newBalance, equity, today) ==
  LET m1 == [m EXCEPT !.currentBalance = newBalance,
                      !.currentEquity = equity,
                      !.peakBalance = newBalance]
      m2 == IF today # m.lastUpdate THEN registerDayStart(m1, today) ELSE m1
  IN [_calculateDrawdowns(m2, today) EXCEPT !.lastUpdate = today]

monitorUpdateBalance(m, newBalance, equity, today) ==
  LET m1 == [m EXCEPT !.currentBalance = newBalance,
                      !.currentEquity = equity,
                      !.peakBalance = IF newBalance > @ THEN newBalance ELSE @]
      m2 == IF today # m.lastUpdate THEN registerDayStart(m1, today) ELSE m1
  IN [_calculateDrawdowns(m2, today) EXCEPT !.lastUpdate = today]

getCurrentDailyDrawdown(m, today) ==
  IF m.dailyDrawdowns[today] = Absent THEN Num(0) ELSE m.dailyDrawdowns[today]

isDailyLimitExceeded(m, today) == Gt(getCurrentDailyDrawdown(m, today), m.maxDailyDrawdown)
isTotalLimitExceeded(m) == Gt(m.totalDrawdown, m.maxTotalDrawdown)

warningLevel(dailyDrawdownPercentage, totalDrawdownPercentage) ==
  IF Ge(dailyDrawdownPercentage, Num(1)) \/ Ge(totalDrawdownPercentage, Num(1))
  THEN "critical"
  ELSE IF Ge(dailyDrawdownPercentage, [n |-> 4, d |-> 5])
          \/ Ge(totalDrawdownPercentage, [n |-> 4, d |-> 5])
  THEN "warning"
  ELSE "safe"

getWarningLevel(m, today) ==
  warningLevel(Div(getCurrentDailyDrawdown(m, today), m.maxDailyDrawdown),
               Div(m.totalDrawdown, m.maxTotalDrawdown))

resetMonitor(m, today) ==
  [m EXCEPT !.dailyDrawdowns = [d \in Days |-> Absent],
            !.totalDrawdown = Num(0),
            !.initialBalance = 0,
            !.startOfDayBalance = 0,
            !.currentBalance = 0,
            !.currentEquity = 0,
            !.peakBalance = 0,
            !.lastUpdate = today]

\* ------------------------------------------- FXIFYModeManager + rules engine
NewManager ==
  [ isActive |-> FALSE,
    userProfiles |-> LoadedProfiles,
    inserted |-> <<1, 2>>,              \* the keys of userProfiles in insertion order
    activeProfile |-> NoProfile,
    rulesEngine |->
      [ activeProfile |-> NoProfile,
        tradingCalendar |-> FALSE,      \* null: the calendar is never created
        initialBalance |-> 0,
        currentBalance |-> 0,
        currentEquity |-> 0,
        tradingDaysHistory |-> {},      \* the dates registered as trading days
        dailyTradeCount |-> 0,
        tradingDaysCompleted |-> 0,
        drawdownMonitor |-> NewMonitor ] ]

\* createProfile(profile) with only the id given (0: none, an id is
\* generated): the other fields take their defaults
createProfile(f, profileId) ==
  LET id == IF profileId # 0 THEN profileId ELSE 3
  IN [f EXCEPT !.userProfiles[id] =
                   [id |-> id, maxDailyDrawdown |-> Frac(3, 100),
                    maxTotalDrawdown |-> Frac(6, 100), tradeSizeLimit |-> 0,
                    allowNewsTrading |-> FALSE],
               !.inserted = IF f.userProfiles[id] = NoProfile THEN Append(@, id) ELSE @]

\* with an id that is not in the store the call returns false
activateFXIFYMode(f, profileId) ==
  LET g == IF profileId = 0 /\ f.activeProfile = NoProfile /\ f.inserted = <<>>
           THEN createProfile(f, 0) ELSE f
      p == IF profileId # 0 THEN g.userProfiles[profileId]
           ELSE IF g.activeProfile # NoProfile THEN g.activeProfile
           ELSE g.userProfiles[Head(g.inserted)]
  IN IF p = NoProfile THEN f
     ELSE [g EXCEPT !.activeProfile = p,
                    !.rulesEngine.activeProfile = p,
                    !.rulesEngine.dailyTradeCount = 0,
                    !.isActive = TRUE]

deactivateFXIFYMode(f, today) ==
  IF ~f.isActive THEN f
  ELSE [f EXCEPT !.rulesEngine.activeProfile = NoProfile,
                 !.rulesEngine.dailyTradeCount = 0,
                 !.rulesEngine.drawdownMonitor = resetMonitor(@, today),
                 !.isActive = FALSE]

\* updateProfile(profileId, profile): profile gives new limits, Absent for a
\* field it leaves undefined
updateProfile(f, profileId, profile) ==
  LET current == f.userProfiles[profileId]
      updated ==
        [current EXCEPT
           !.maxDailyDrawdown = IF profile.maxDailyDrawdown # Absent
                                THEN profile.maxDailyDrawdown ELSE @,
           !.maxTotalDrawdown = IF profile.maxTotalDrawdown # Absent
                                THEN profile.maxTotalDrawdown ELSE @]
  IN IF current = NoProfile THEN f
     ELSE IF f.activeProfile # NoProfile /\ f.activeProfile.id = profileId /\ f.isActive
          THEN [f EXCEPT !.userProfiles[profileId] = updated,
                         !.activeProfile = updated,
                         !.rulesEngine.activeProfile = updated]
     ELSE [f EXCEPT !.userProfiles[profileId] = updated]

deleteProfile(f, profileId, today) ==
  LET g == IF f.activeProfile # NoProfile /\ f.activeProfile.id = profileId
           THEN [deactivateFXIFYMode(f, today) EXCEPT !.activeProfile = NoProfile]
           ELSE f
  IN IF f.userProfiles[profileId] = NoProfile THEN f
     ELSE [g EXCEPT !.userProfiles[profileId] = NoProfile,
                    !.inserted = SelectSeq(@, LAMBDA i : i # profileId)]

\* FXIFYModeManager.initializeDrawdownMonitor -> rules engine -> monitor
initializeDrawdownMonitor(f, initialBalance, today) ==
  IF f.isActive /\ f.activeProfile # NoProfile /\ f.rulesEngine.activeProfile # NoProfile
  THEN [f EXCEPT !.rulesEngine.initialBalance = initialBalance,
                 !.rulesEngine.currentBalance = initialBalance,
                 !.rulesEngine.currentEquity = initialBalance,
                 !.rulesEngine.drawdownMonitor =
                     monitorInitialize(@, initialBalance, f.activeProfile.maxDailyDrawdown,
                                       f.activeProfile.maxTotalDrawdown, today)]
  ELSE f

\* FXIFYModeManager.updateBalance -> rules engine -> monitor
updateBalance(f, balance, equity, today) ==
  IF f.isActive
  THEN [f EXCEPT !.rulesEngine.currentBalance = balance,
                 !.rulesEngine.currentEquity = equity,
                 !.rulesEngine.drawdownMonitor = monitorUpdateBalance(@, balance, equity, today)]
  ELSE f

\* ------------------------------------------------------------ evaluators
Rule(name, severity) == [rule |-> name, severity |-> severity]
Pass == [valid |-> TRUE, rules |-> <<>>]
Fail(name) == [valid |-> FALSE, rules |-> <<Rule(name, "error")>>]

\* one evaluator's answer: "ok", "warning" or "error"
drawdown_limit(f, today, request) ==
  LET m == f.rulesEngine.drawdownMonitor
      profile == f.activeProfile
      daily == getCurrentDailyDrawdown(m, today)
      pd == Plus(daily, Div(request.potentialLoss, Num(m.startOfDayBalance)))
      pt == Plus(m.totalDrawdown, Div(request.potentialLoss, Num(m.initialBalance)))
  IN IF isDailyLimitExceeded(m, today) THEN "error"
     ELSE IF isTotalLimitExceeded(m) THEN "error"
     ELSE IF Truthy(request.potentialLoss) /\ Gt(pd, profile.maxDailyDrawdown) THEN "error"
     ELSE IF Truthy(request.potentialLoss) /\ Gt(pt, profile.maxTotalDrawdown) THEN "error"
     ELSE IF getWarningLevel(m, today) = "critical" THEN "warning"
     ELSE "ok"

trade_size_limit(f, request) ==
  LET profile == f.activeProfile
  IN IF profile.tradeSizeLimit = 0 \/ request.volume = 0 THEN "ok"
     ELSE IF request.volume > profile.tradeSizeLimit THEN "error"
     ELSE "ok"

\* without a trading calendar the evaluator never looks an event up
news_trading(f, request, newsActive) ==
  IF f.activeProfile.allowNewsTrading THEN "ok"
  ELSE IF f.rulesEngine.tradingCalendar /\ newsActive THEN "error"
  ELSE "ok"

trading_days(f, request) == "ok"

\* what one evaluator contributes to ruleViolations and to warnings
issues(name, answer, severity) ==
  IF answer = severity THEN <<Rule(name, severity)>> ELSE <<>>

\* an evaluation that stops at the first evaluator that turns the request down
collectFirst(dl, ts, nt, td) ==
  LET violations == issues("drawdown_limit", dl, "error")
                      \o issues("trade_size_limit", ts, "error")
                      \o issues("news_trading", nt, "error")
                      \o issues("trading_days", td, "error")
  IN IF violations # <<>> THEN [valid |-> FALSE, rules |-> <<Head(violations)>>]
     ELSE [valid |-> TRUE,
           rules |-> issues("drawdown_limit", dl, "warning")
                       \o issues("trade_size_limit", ts, "warning")
                       \o issues("news_trading", nt, "warning")
                       \o issues("trading_days", td, "warning")]

\* evaluateTradeRequest: every evaluator runs, in the order they were
\* registered; the violations come first in rules, then the warnings
collect(dl, ts, nt, td) ==
  [valid |-> dl # "error" /\ ts # "error" /\ nt # "error" /\ td # "error",
   rules |-> issues("drawdown_limit", dl, "error")
               \o issues("trade_size_limit", ts, "error")
               \o issues("news_trading", nt, "error")
               \o issues("trading_days", td, "error")
               \o issues("drawdown_limit", dl, "warning")
               \o issues("trade_size_limit", ts, "warning")
               \o issues("news_trading", nt, "warning")
               \o issues("trading_days", td, "warning")]

evaluateTradeRequest(f, today, request, newsActive) ==
  collect(drawdown_limit(f, today, request), trade_size_limit(f, request),
          news_trading(f, request, newsActive), trading_days(f, request))

\* ------------------------------------------------ PreExecutionValidator
\* rulesEngine.currentBalance || 10000
_getAccountSize(f) ==
  IF f.rulesEngine.currentBalance # 0 THEN f.rulesEngine.currentBalance ELSE 10000

\* an order: volume in hundredths of a lot, stopLoss/price present or not,
\* pips = |price - stopLoss| / pipSize; the default pipValue is 10
potentialLoss(f, order) ==
  IF order.volume # 0 /\ order.stopLoss
  THEN IF order.price THEN Frac(order.volume * order.pips * 10, 100) ELSE NaN
  ELSE Frac(_getAccountSize(f), 100)

checkDrawdownLimits(f, today, loss) ==
  LET m == f.rulesEngine.drawdownMonitor
      profile == f.activeProfile
      accountSize == Num(_getAccountSize(f))
      pd == Plus(getCurrentDailyDrawdown(m, today), Div(loss, accountSize))
      pt == Plus(m.totalDrawdown, Div(loss, accountSize))
  IN IF ~f.isActive \/ profile = NoProfile THEN Pass
     ELSE IF Gt(pd, profile.maxDailyDrawdown) THEN Fail("drawdown_limit")
     ELSE IF Gt(pt, profile.maxTotalDrawdown) THEN Fail("drawdown_limit")
     ELSE IF getWarningLevel(m, today) = "critical"
          THEN [valid |-> TRUE, rules |-> <<Rule("drawdown_warning", "warning")>>]
     ELSE Pass

\* a weekend test that knows Sunday only
checkTradingHoursSunday(f, today) ==
  IF ~f.isActive \/ f.activeProfile = NoProfile THEN Pass
  ELSE IF getUTCDay(today) = 0 THEN Fail("trading_hours")
  ELSE Pass

checkTradingHours(f, today) ==
  IF ~f.isActive \/ f.activeProfile = NoProfile THEN Pass
  ELSE IF getUTCDay(today) = 0 \/ getUTCDay(today) = 6 THEN Fail("trading_hours")
  ELSE Pass

\* safeToTrade of checkNewsEvents: the calendar query is a placeholder
checkNewsEvents(f, newsActive) == TRUE

\* the first failed check is returned, the later ones do not run
orElse(check, rest) == IF ~check.valid THEN check ELSE rest

validateWithRisk(f, today, order, newsActive, loss) ==
  orElse(checkDrawdownLimits(f, today, loss),
    orElse(checkTradingHours(f, today),
      IF ~checkNewsEvents(f, newsActive) THEN Fail("news_trading")
      ELSE evaluateTradeRequest(f, today, [volume |-> order.volume, potentialLoss |-> loss],
                                newsActive)))

validateOrder(f, today, order, newsActive) ==
  IF ~f.isActive THEN Pass
  ELSE IF f.activeProfile = NoProfile THEN Pass
  ELSE validateWithRisk(f, today, order, newsActive, potentialLoss(f, order))

\* order.mod: "sl" (type MODIFY_SL or stopLossOnly), "tp" (type MODIFY_TP or
\* takeProfitOnly), "volume" (increasingVolume; validated as a simulated order,
\* which carries no price), "other"
validatePositionModification(f, today, order, newsActive) ==
  IF ~f.isActive THEN Pass
  ELSE IF f.activeProfile = NoProfile THEN Pass
  ELSE IF order.stopLoss /\ order.mod = "sl" THEN Pass
  ELSE IF order.takeProfit /\ order.mod = "tp" THEN Pass
  ELSE IF order.mod = "volume" /\ order.volume # 0
       THEN validateOrder(f, today,
                          [order EXCEPT !.volume = IF order.volumeIncrease # 0
                                                   THEN order.volumeIncrease ELSE 1,
                                        !.price = FALSE],
                          newsActive)
  ELSE Pass

\* ------------------------------------------------ validation steps that throw
\* the steps of validateOrder in which an exception can be raised
Steps == {"checkDrawdownLimits", "checkTradingHours", "checkNewsEvents", "evaluator"}
Faults == {"none"} \cup Steps

\* validateOrder past the loss estimate when the step fault throws as soon as
\* it runs: the three checks answer "allowed" from their catch blocks,
\* evaluateTradeRequest answers a system_error violation from its own; threw
\* says whether the faulty step ran.  The try block of checkNewsEvents is
\* entered only with a trading calendar.
validateWithRiskThrowing(f, today, order, newsActive, loss, fault) ==
  LET dd == IF fault = "checkDrawdownLimits" THEN Pass
            ELSE checkDrawdownLimits(f, today, loss)
      th == IF fault = "checkTradingHours" THEN Pass ELSE checkTradingHours(f, today)
      safe == IF fault = "checkNewsEvents" /\ f.rulesEngine.tradingCalendar THEN TRUE
              ELSE checkNewsEvents(f, newsActive)
      ev == IF fault = "evaluator" THEN Fail("system_error")
            ELSE evaluateTradeRequest(f, today,
                                      [volume |-> order.volume, potentialLoss |-> loss],
                                      newsActive)
      result == orElse(dd, orElse(th, IF ~safe THEN Fail("news_trading") ELSE ev))
  IN [valid |-> result.valid,
      rules |-> result.rules,
      threw |-> CASE fault = "checkDrawdownLimits" -> TRUE
                  [] fault = "checkTradingHours" -> dd.valid
                  [] fault = "checkNewsEvents" ->
                       dd.valid /\ th.valid /\ f.rulesEngine.tradingCalendar
                  [] fault = "evaluator" -> dd.valid /\ th.valid /\ safe
                  [] OTHER -> FALSE]

\* ======================================================= MT5FXIFYAdapter
\* what the caller of a gated method gets back
Returns == {"none", "sent", "violation", "threw"}

\* continuation awaiting the response of a request the gated adapter sent
Awaits == {"none", "plain", "order", "approved", "acct_update", "acct_seed",
           "close", "get_positions", "close_all", "acct_all"}

\* what an observer notes of a gated call: FXIFY active, adapter connected,
\* verdict of the validation, whether a request was stored or written
NoCall ==
  [op |-> "none",         \* none, order, closePosition, closeAllPositions
   active |-> FALSE, connected |-> FALSE, valid |-> TRUE, wrote |-> FALSE,
   consulted |-> FALSE,   \* the validator was called
   asPlain |-> TRUE,      \* adapter and frame are what the parent method alone gives
   bounded |-> TRUE,      \* frame volume within tradeSizeLimit, comment tagged
   clamped |-> FALSE,     \* frame volume below the caller's volume
   threw |-> FALSE]       \* a step of the validation raised an exception

\* what an observer notes when a response resumes the gated adapter: the
\* continuation resumed, the bridge's answer, FXIFY active, whether account
\* info was requested, whether the manager changed, and whether an account
\* response was applied with updateBalance
NoEvent ==
  [await |-> "none", resp |-> "none", active |-> FALSE, fetched |-> FALSE,
   touched |-> FALSE, applied |-> TRUE,
   settled |-> FALSE,     \* the last close of a closeAllPositions call settled
   successes |-> 0]       \* and so many of its closes had succeeded

\* a closeAllPositions call: where it stands, the positions getPositions
\* returned, the result of each close (results of Promise.all), what the
\* bridge did with each close (history), and the value returned
NoCloseAll ==
  [ phase |-> "idle",       \* idle, positions, closing, refresh, returned, failed
    total |-> 0,
    results |-> [i \in Positions |-> "none"],   \* none, pending, ok, failed, threw
    fate |-> [i \in Positions |-> "none"],
    listed |-> 0,           \* how many positions the bridge listed (history)
    ret |-> [success |-> FALSE, closed |-> 0, total |-> 0, details |-> 0] ]

\* what an observer notes of a call of the manager's monitor methods: the
\* method, its arguments, the highest balance supplied since initialize, and
\* whether the call repeats the arguments of the updateBalance call before it
NoMon == [op |-> "none", balance |-> 0, equity |-> 0, seen |-> 0, again |-> FALSE]

\* what an observer notes of a call of evaluateTradeRequest: the request and
\* the result returned
NoVerdict ==
  [asked |-> FALSE, request |-> [volume |-> 0, potentialLoss |-> Num(0)],
   valid |-> TRUE, rules |-> <<>>]

NewGate ==
  [ today |-> 1,                              \* the UTC calendar day of the clock
    await |-> [r \in ReqIds |-> "none"],
    pos |-> [r \in ReqIds |-> 0],             \* position a CLOSE_POSITION request closes
    risk |-> [r \in ReqIds |-> Num(0)],       \* loss estimated for the order of a request
    traded |-> {},                            \* dates on which incrementTradeCount ran
    all |-> NoCloseAll,
    ret |-> "none",                           \* result of the last gated call
    call |-> NoCall,                          \* the gated call just made
    event |-> NoEvent,                        \* the response just handled
    mon |-> NoMon,                            \* the monitor call just made
    verdict |-> NoVerdict ]                   \* the evaluation just made

GateOps == {"placeMarketOrder", "placePendingOrder", "modifyOrder"}

Command(op) == IF op = "modifyOrder" THEN "MODIFY_ORDER" ELSE "PLACE_ORDER"

\* validateAgainstFXIFYRules for the two place methods, and
\* validatePositionModification for modifyOrder
validationResult(f, today, op, order) ==
  IF op = "modifyOrder" THEN validatePositionModification(f, today, order, FALSE)
  ELSE validateOrder(f, today, order, FALSE)

\* the same validation when the step fault throws as soon as it runs.  The
\* checks run for an order while the mode is active with a profile, and for a
\* modification only when it is validated as a simulated order (a volume
\* increase, the simulated order carrying no price)
validationThrowing(f, today, op, order, fault) ==
  LET plain == validationResult(f, today, op, order)
      simulated == op = "modifyOrder"
      checked ==
        /\ fault # "none"
        /\ f.isActive
        /\ f.activeProfile # NoProfile
        /\ simulated => (/\ ~(order.stopLoss /\ order.mod = "sl")
                         /\ ~(order.takeProfit /\ order.mod = "tp")
                         /\ order.mod = "volume"
                         /\ order.volume # 0)
      o == IF simulated
           THEN [order EXCEPT !.volume = IF order.volumeIncrease # 0
                                         THEN order.volumeIncrease ELSE 1,
                              !.price = FALSE]
           ELSE order
  IN IF checked
     THEN validateWithRiskThrowing(f, today, o, FALSE, potentialLoss(f, o), fault)
     ELSE [valid |-> plain.valid, rules |-> plain.rules, threw |-> FALSE]

\* constraints that tag the comment and leave the volume alone
applyFXIFYConstraintsUnclamped(f, order) ==
  IF ~f.isActive THEN order
  ELSE IF f.activeProfile = NoProfile THEN order
  ELSE [order EXCEPT !.comment = "FXIFY"]

\* the adjusted copy of the order: volume clamped to the profile's
\* tradeSizeLimit, comment prefixed with the FXIFY tag
applyFXIFYConstraints(f, order) ==
  IF ~f.isActive THEN order
  ELSE IF f.activeProfile = NoProfile THEN order
  ELSE [order EXCEPT
          !.volume = IF f.activeProfile.tradeSizeLimit # 0 /\ @ > f.activeProfile.tradeSizeLimit
                     THEN f.activeProfile.tradeSizeLimit ELSE @,
          !.comment = "FXIFY"]

\* the caller's object after applyFXIFYConstraints: the adjustments are made
\* on a shallow copy
callerOrder(f, order) == order

\* the fields of the command frame the parent's method builds from its argument
NoFrame == [volume |-> 0, comment |-> "none"]
Frame(order) == [volume |-> order.volume, comment |-> order.comment]

\* what the call of a parent method left: b is the adapter after the call, r
\* the request id it would have allocated
sent(b, g, r, order, cont) ==
  IF b.nextRequestId = r
  THEN [ad |-> b, gt |-> [g EXCEPT !.ret = "threw"], frame |-> NoFrame]
  ELSE [ad |-> b,
        gt |-> [g EXCEPT !.ret = "sent", !.await[r] = cont],
        frame |-> Frame(order)]

\* super.<op>(order): the parent's capability method, with the frame it writes
delegate(a, g, op, order, cont) ==
  sent(method(a, Command(op)), g, a.nextRequestId, order, cont)

\* the validator was called in this gated call, or was not
consult(g, yes) == [g EXCEPT !.call.consulted = yes]

\* an inactive branch that tags the order and refreshes like the active one
passThroughTagged(a, g, op, order) ==
  delegate(a, consult(g, FALSE), op, [order EXCEPT !.comment = "FXIFY"], "order")

\* the branch taken while FXIFY mode is inactive: return super.<op>(orderParams)
passThrough(a, g, op, order) ==
  delegate(a, consult(g, FALSE), op, order, "plain")

\* a gate that delegates whatever the validation said
gatedAlways(a, f, g, op, order, validation) ==
  IF ~f.isActive THEN passThrough(a, g, op, order)
  ELSE delegate(a, consult(g, TRUE), op, applyFXIFYConstraints(f, order),
                IF op = "placeMarketOrder" THEN "order" ELSE "approved")

\* placeMarketOrder / placePendingOrder / modifyOrder of the gated adapter, up
\* to the point where the call returns or awaits the bridge's response;
\* validation is the result the method awaited from the validator
gated(a, f, g, op, order, validation) ==
  IF ~f.isActive THEN passThrough(a, g, op, order)
  ELSE IF ~validation.valid
       THEN \* rules[0].message is read to build the failure value
            [ad |-> a,
             gt |-> [consult(g, TRUE) EXCEPT !.ret = IF validation.rules = <<>> THEN "threw"
                                                     ELSE "violation"],
             frame |-> NoFrame]
       ELSE delegate(a, consult(g, TRUE), op, applyFXIFYConstraints(f, order),
                     IF op = "placeMarketOrder" THEN "order" ELSE "approved")

requested(b, g, r, cont) ==
  IF b.nextRequestId = r THEN [ad |-> b, gt |-> g]
  ELSE [ad |-> b, gt |-> [g EXCEPT !.await[r] = cont]]

\* super.getAccountInfo() issued by the gated adapter; its failure is caught
accountInfoRequest(a, g, cont) ==
  requested(method(a, "GET_ACCOUNT_INFO"), g, a.nextRequestId, cont)

\* the rest of connect(config) of the gated adapter: when super.connect resolved
\* with FXIFY active, the account info is requested to seed the monitor
afterConnect(a0, a, f, g) ==
  IF f.isActive /\ \E s \in Sockets : a0.connectRes[s] = "pending" /\ a.connectRes[s] = "resolved"
  THEN accountInfoRequest(a, g, "acct_seed")
  ELSE [ad |-> a, gt |-> g]

\* continuations whose request left the pending map are gone
sweep(a, g) ==
  [g EXCEPT !.await = [r \in ReqIds |-> IF r \in a.callbacks THEN g.await[r] ELSE "none"],
            !.pos = [r \in ReqIds |-> IF r \in a.callbacks THEN g.pos[r] ELSE 0],
            !.risk = [r \in ReqIds |-> IF r \in a.callbacks THEN g.risk[r] ELSE Num(0)]]

withFx(n, f) == [ad |-> n.ad, fx |-> f, gt |-> n.gt]

\* the gated adapter's continuation of request r, whose response resp carried
\* the account figures balance and equity; c holds the adapter and the gate
\* after the parent's handlers ran
afterResponse(c, f, r, resp, balance, equity) ==
  CASE c.gt.await[r] = "order" /\ resp = "ok" ->
         withFx(accountInfoRequest(c.ad, c.gt, "acct_update"), f)
    [] c.gt.await[r] = "acct_update" /\ resp = "ok" ->
         withFx(c, updateBalance(f, balance, equity, c.gt.today))
    [] c.gt.await[r] = "acct_seed" /\ resp = "ok" ->
         withFx(c, initializeDrawdownMonitor(f, balance, c.gt.today))
    [] OTHER -> withFx(c, f)

\* ------------------------------------------------ closing positions
\* closePosition(positionId) of the gated adapter up to its await: the
\* parent's closePosition is called, whatever the FXIFY state
closePosition(a, g) ==
  IF method(a, "CLOSE_POSITION").nextRequestId = a.nextRequestId
  THEN [ad |-> a, gt |-> [g EXCEPT !.ret = "threw"]]
  ELSE [ad |-> method(a, "CLOSE_POSITION"),
        gt |-> [g EXCEPT !.ret = "sent", !.await[a.nextRequestId] = "close"]]

\* a closePosition that returns the close result without a refresh
afterCloseNoRefresh(c, f, how) ==
  withFx(c, f)

\* closePosition after its await: with FXIFY active and closeResult.success,
\* the account info is requested for updateBalance
afterClose(c, f, how) ==
  IF f.isActive /\ how = "ok"
  THEN withFx(accountInfoRequest(c.ad, c.gt, "acct_update"), f)
  ELSE withFx(c, f)

\* results.filter(r => r.success).length
successful(results) == Cardinality({i \in Positions : results[i] = "ok"})

\* an aggregate whose success says that some close succeeded
aggregateAny(results, total) ==
  [success |-> successful(results) > 0,
   closed |-> successful(results),
   total |-> total,
   details |-> Cardinality({i \in Positions : results[i] # "none"})]

\* the value closeAllPositions returns: details is the number of entries
aggregate(results, total) ==
  [success |-> successful(results) = total,
   closed |-> successful(results),
   total |-> total,
   details |-> Cardinality({i \in Positions : results[i] # "none"})]

returned(g) ==
  [g EXCEPT !.all.phase = "returned", !.all.ret = aggregate(g.all.results, g.all.total)]

\* closeAllPositions once Promise.all has settled: the balance is refreshed
\* when a close succeeded and FXIFY is active, then the aggregate is returned
afterCloses(c, f) ==
  IF \E i \in Positions : c.gt.all.results[i] = "pending" THEN withFx(c, f)
  ELSE IF successful(c.gt.all.results) > 0 /\ f.isActive
  THEN IF method(c.ad, "GET_ACCOUNT_INFO").nextRequestId = c.ad.nextRequestId
       THEN withFx([ad |-> c.ad, gt |-> returned(c.gt)], f)
       ELSE withFx(accountInfoRequest(c.ad, [c.gt EXCEPT !.all.phase = "refresh"], "acct_all"), f)
  ELSE withFx([ad |-> c.ad, gt |-> returned(c.gt)], f)

\* positions.map(async position => super.closePosition(position.id)): every
\* close is issued before any of them is awaited; a close that throws at once
\* is caught as a failed entry
RECURSIVE closeEach(_, _, _)
closeEach(c, i, n) ==
  IF i > n THEN c
  ELSE closeEach(
         IF method(c.ad, "CLOSE_POSITION").nextRequestId = c.ad.nextRequestId
         THEN [ad |-> c.ad, gt |-> [c.gt EXCEPT !.all.results[i] = "threw"]]
         ELSE [ad |-> method(c.ad, "CLOSE_POSITION"),
               gt |-> [c.gt EXCEPT !.all.results[i] = "pending",
                                   !.await[c.ad.nextRequestId] = "close_all",
                                   !.pos[c.ad.nextRequestId] = i]],
         i + 1, n)

\* closeAllPositions up to its first await: super.getPositions()
closeAllPositions(a, g) ==
  IF method(a, "GET_POSITIONS").nextRequestId = a.nextRequestId
  THEN [ad |-> a, gt |-> [g EXCEPT !.all = [NoCloseAll EXCEPT !.phase = "failed"]]]
  ELSE [ad |-> method(a, "GET_POSITIONS"),
        gt |-> [g EXCEPT !.all = [NoCloseAll EXCEPT !.phase = "positions"],
                         !.await[a.nextRequestId] = "get_positions"]]

\* the entry of results for a close the bridge answered with `how`
entry(how) == IF how = "ok" THEN "ok" ELSE IF how = "fail" THEN "failed" ELSE "threw"

\* the gated adapter's continuation of request r when it settled with `how`
\* ("ok", "fail": resolved; "error", "timeout", "closed": rejected); n is the
\* number of positions a GET_POSITIONS response lists
afterSettled(c, f, r, how, n, balance, equity) ==
  CASE c.gt.await[r] = "close" -> afterClose(c, f, how)
    [] c.gt.await[r] = "get_positions" ->
         IF how = "ok"
         THEN afterCloses(closeEach([ad |-> c.ad,
                                     gt |-> [c.gt EXCEPT !.all.phase = "closing",
                                                         !.all.total = n]], 1, n), f)
         ELSE withFx([ad |-> c.ad, gt |-> [c.gt EXCEPT !.all.phase = "failed"]], f)
    [] c.gt.await[r] = "close_all" ->
         afterCloses([ad |-> c.ad,
                      gt |-> [c.gt EXCEPT !.all.results[c.gt.pos[r]] = entry(how)]], f)
    [] c.gt.await[r] = "acct_all" ->
         withFx([ad |-> c.ad, gt |-> returned(c.gt)],
                IF how = "ok" THEN updateBalance(f, balance, equity, c.gt.today) ELSE f)
    [] OTHER -> afterResponse(c, f, r, how, balance, equity)

\* ---------------------------------------------------------------- actions
Fits(a) == a.nextRequestId <= MaxReq

\* the user calls connect(config)
Connect ==
  /\ ad.nSockets < MaxSockets
  /\ ad' = [connect(ad, "user") EXCEPT !.discCalled = FALSE]
  /\ UNCHANGED <<fx, gt>>

\* a reconnect timer fires and calls connect(config)
ReconnectTimer(t) ==
  /\ t \in ad.rtimers
  /\ ad.nSockets < MaxSockets
  /\ ad' = connect([ad EXCEPT !.rtimers = @ \ {t}], "auto")
  /\ UNCHANGED <<fx, gt>>

\* the bridge accepts socket s
SocketConnect(s) ==
  /\ ad.sockSt[s] = "connecting"
  /\ (ad.config /\ ad.kind # "IB") => Fits(ad)
  /\ ad' = onConnect(ad, s)
  /\ UNCHANGED <<fx, gt>>

\* socket s fails (refused, reset)
SocketError(s) ==
  /\ ad.sockSt[s] \in {"connecting", "open", "ended"}
  /\ ad' = onError(ad, s)
  /\ UNCHANGED <<fx, gt>>

\* the peer closes socket s
PeerClose(s) ==
  /\ ad.sockSt[s] \in {"open", "ended"}
  /\ ad' = onClose(ad, s)
  /\ UNCHANGED <<fx, gt>>

\* the 'close' event of a destroyed socket
DestroyedClose(s) ==
  /\ ad.sockSt[s] = "destroyed"
  /\ ad' = onClose(ad, s)
  /\ UNCHANGED <<fx, gt>>

ConnectionTimeout(s) ==
  /\ s \in ad.ctimer
  /\ ad' = onConnectionTimeout(ad, s)
  /\ UNCHANGED <<fx, gt>>

\* the bridge sends a frame echoing request id r on socket s
Data(s, r, resp) ==
  /\ ad.sockSt[s] \in {"open", "ended"}
  /\ ad' = onData(ad, r, resp)
  /\ UNCHANGED <<fx, gt>>

RequestTimeout(r) ==
  /\ r \in ad.callbacks
  /\ ad' = onRequestTimeout(ad, r)
  /\ UNCHANGED <<fx, gt>>

\* the user calls a capability method
Call(cmd) ==
  /\ Fits(ad)
  /\ ad' = method(ad, cmd)
  /\ UNCHANGED <<fx, gt>>

\* the user calls disconnect()
Disconnect ==
  /\ ad.discCalls < MaxDisc
  /\ ad' = [disconnect(ad) EXCEPT
               !.discCalled = TRUE,
               !.discCalls = @ + 1,
               !.userDisc = IF State(ad) = "Connected" THEN @ \cup {ad.socket} ELSE @]
  /\ UNCHANGED <<fx, gt>>

Init ==
  /\ \E k \in Kinds, c \in BOOLEAN : ad = NewAdapter(k, c)
  /\ fx = NewManager
  /\ gt = NewGate

Next ==
  \/ Connect
  \/ \E t \in Sockets : ReconnectTimer(t)
  \/ \E s \in Sockets : SocketConnect(s)
  \/ \E s \in Sockets : SocketError(s)
  \/ \E s \in Sockets : PeerClose(s)
  \/ \E s \in Sockets : DestroyedClose(s)
  \/ \E s \in Sockets : ConnectionTimeout(s)
  \/ \E s \in Sockets, r \in ReqIds, x \in Responses : Data(s, r, x)
  \/ \E r \in ReqIds : RequestTimeout(r)
  \/ \E c \in MethodCommands : Call(c)
  \/ Disconnect

Spec == Init /\ [][Next]_vars

\* ------------------------------------------------- cooperative bridge
\* The bridge accepts every socket, answers every command frame it receives
\* with an ok response before the request's timer, and never closes its side.

\* connect() called from Idle
CoopConnect ==
  /\ ad.nSockets = 0
  /\ Connect

\* the bridge answers the frame of request r on the socket it was written to
BridgeAnswer(r) ==
  /\ r \in ad.wire \ ad.answered
  /\ ad.sockSt[ad.reqSock[r]] \in {"open", "ended"}
  /\ ad' = [onData(ad, r, "ok") EXCEPT !.answered = @ \cup {r}]
  /\ UNCHANGED <<fx, gt>>

\* the timer of a request whose frame never reached the bridge
UnansweredTimeout(r) ==
  /\ r \in ad.callbacks \ ad.wire
  /\ ad' = onRequestTimeout(ad, r)
  /\ UNCHANGED <<fx, gt>>

CoopSystem ==
  \/ \E s \in Sockets : SocketConnect(s)
  \/ \E r \in ReqIds : BridgeAnswer(r)
  \/ \E r \in ReqIds : UnansweredTimeout(r)
  \/ \E s \in Sockets : DestroyedClose(s)

CoopNext ==
  \/ CoopConnect
  \/ \E c \in MethodCommands : Call(c)
  \/ Disconnect
  \/ CoopSystem

CoopSpec == Init /\ [][CoopNext]_vars /\ WF_vars(CoopSystem)

\* ------------------------------------------------- inbound byte stream
\* The peer writes whole frames; the transport hands the bytes to the 'data'
\* handler in chunks cut at arbitrary places.

\* a response to request r, and a line that is not a well-formed message
PeerFrames ==
  { <<Opening, r, Delimiter>> : r \in ReqIds } \cup { <<Garbage, Delimiter>> }

NonEmpty(message) == message # <<>>

\* the delimiter-terminated frames of a stream
Frames(text) ==
  SelectSeq(SubSeq(split(text, <<>>, <<>>), 1, Len(split(text, <<>>, <<>>)) - 1), NonEmpty)

PeerWrite(frame) ==
  /\ ad.socket # 0
  /\ ad.sockSt[ad.socket] = "open"
  /\ Len(split(ad.peerWrote, <<>>, <<>>)) <= MaxFrames
  /\ ad' = [ad EXCEPT !.peerWrote = @ \o frame]
  /\ UNCHANGED <<fx, gt>>

\* the next k bytes of the stream, not yet delivered
chunk(a, k) == SubSeq(a.peerWrote, a.delivered + 1, a.delivered + k)

received(a, k) == [handleData(a, chunk(a, k)) EXCEPT !.delivered = @ + k]

\* a 'data' event with the next k bytes
Deliver(k) ==
  /\ ad.socket # 0
  /\ ad.sockSt[ad.socket] \in {"open", "ended"}
  /\ k <= Len(ad.peerWrote) - ad.delivered
  /\ ad' = received(ad, k)
  /\ UNCHANGED <<fx, gt>>

FrameNext ==
  \/ CoopConnect
  \/ \E s \in Sockets : SocketConnect(s)
  \/ \E c \in MethodCommands : Call(c)
  \/ \E f \in PeerFrames : PeerWrite(f)
  \/ \E k \in 1..(3 * MaxFrames) : Deliver(k)

FrameSpec == Init /\ [][FrameNext]_vars

\* --------------------------------------------------- push events and caches
\* The caches and the account snapshot are followed on one MT4 or MT5
\* connection to a bridge that pushes events and answers account queries.

\* the data an event or an account response carries
Versions == {1, 2}

\* the event names a bridge of each kind pushes (section 6 of the protocol)
PushEvents(k) ==
  IF k = "MT4"
  THEN {"TICK", "ACCOUNT_UPDATE", "POSITION_UPDATE", "ORDER_UPDATE", "POSITION_CLOSE",
        "ORDER_CLOSE"}
  ELSE {"TICK", "ACCOUNT_CHANGED", "POSITION_CHANGED", "ORDER_CHANGED", "POSITION_CLOSE",
        "ORDER_CLOSE"}

\* MT4BrokerAdapter._handleEvent(eventType, data), data.ticket = ticket
_handleEvent(a, eventType, ticket, data) ==
  CASE eventType = "ACCOUNT_UPDATE" -> [a EXCEPT !.accountInfo = data]
    [] eventType = "POSITION_UPDATE" -> [a EXCEPT !.positions[ticket] = data]
    [] eventType = "ORDER_UPDATE" -> [a EXCEPT !.orders[ticket] = data]
    [] eventType = "POSITION_CLOSE" -> [a EXCEPT !.positions[ticket] = 0]
    [] eventType = "ORDER_CLOSE" -> [a EXCEPT !.orders[ticket] = 0]
    [] OTHER -> a

\* MT5BrokerAdapter._handleEvent(event): position and order events are only
\* passed on to the listeners
_handleEventMT5(a, event, data) ==
  CASE event = "ACCOUNT_CHANGED" -> [a EXCEPT !.accountInfo = data]
    [] OTHER -> a

\* what the bridge said with this event
noted(h, event, ticket, data) ==
  CASE event \in {"ACCOUNT_UPDATE", "ACCOUNT_CHANGED"} -> [h EXCEPT !.account = data]
    [] event \in {"POSITION_UPDATE", "POSITION_CHANGED"} -> [h EXCEPT !.positions[ticket] = data]
    [] event \in {"ORDER_UPDATE", "ORDER_CHANGED"} -> [h EXCEPT !.orders[ticket] = data]
    [] event = "POSITION_CLOSE" -> [h EXCEPT !.positions[ticket] = 0]
    [] event = "ORDER_CLOSE" -> [h EXCEPT !.orders[ticket] = 0]
    [] OTHER -> h

\* the bridge pushes an event frame on socket s
PushEvent(s, event, ticket, data) ==
  /\ ad.sockSt[s] \in {"open", "ended"}
  /\ event \in PushEvents(ad.kind)
  /\ ad' = [(IF ad.kind = "MT4" THEN _handleEvent(ad, event, ticket, data)
                                ELSE _handleEventMT5(ad, event, data))
              EXCEPT !.pushed = noted(@, event, ticket, data)]
  /\ UNCHANGED <<fx, gt>>

\* the continuation of getAccountInfo() and, for MT5, of the AUTHORIZE request
\* of connect(): the account data of the response becomes the snapshot; b is
\* the adapter after the 'data' handler settled request r of adapter a
getAccountInfo(a, b, r, resp, data) ==
  IF \/ a.reqCmd[r] = "GET_ACCOUNT_INFO" /\ resp # "error"
     \/ a.kind = "MT5" /\ a.reqCmd[r] = "AUTHORIZE" /\ resp = "ok"
  THEN [b EXCEPT !.accountInfo = data, !.pushed.account = data]
  ELSE b

\* the bridge answers pending request r on socket s with account data
AccountAnswer(s, r, resp, data) ==
  /\ ad.sockSt[s] \in {"open", "ended"}
  /\ r \in ad.callbacks
  /\ s = ad.reqSock[r]
  /\ ad' = getAccountInfo(ad, onData(ad, r, resp), r, resp, data)
  /\ UNCHANGED <<fx, gt>>

CacheInit ==
  /\ \E k \in {"MT5", "MT4"}, c \in BOOLEAN : ad = NewAdapter(k, c)
  /\ fx = NewManager
  /\ gt = NewGate

CacheNext ==
  \/ CoopConnect
  \/ \E s \in Sockets : SocketConnect(s)
  \/ \E c \in MethodCommands : Call(c)
  \/ \E s \in Sockets, r \in ReqIds, x \in Responses, d \in Versions :
        AccountAnswer(s, r, x, d)
  \/ \E s \in Sockets, e \in PushEvents("MT4") \cup PushEvents("MT5"),
         p \in Positions, d \in Versions : PushEvent(s, e, p, d)

CacheSpec == CacheInit /\ [][CacheNext]_vars

\* ------------------------------------------------- risk-gated MT5 adapter
\* order parameters: volume in hundredths of a lot; stopLoss, takeProfit and
\* price say whether the field is given; pips = |price - stopLoss| / pipSize
Orders ==
  { [volume |-> v, stopLoss |-> sl, takeProfit |-> FALSE, price |-> pr, pips |-> 20,
     mod |-> "none", volumeIncrease |-> 0, comment |-> "SAITRAPP"] :
       v \in {100, 300}, sl \in BOOLEAN, pr \in BOOLEAN }

\* modifications: a stop-loss move (on a position of 1 lot and of 3 lots), a
\* change of another field, and volume increases with and without a stop loss
\* (volumeIncrease 0: not given)
Modifications ==
  { o \in [volume : {100}, stopLoss : BOOLEAN, takeProfit : {FALSE}, price : {FALSE},
            pips : {20}, mod : {"sl", "volume", "other"}, volumeIncrease : {0, 300},
            comment : {"SAITRAPP"}] :
       o.mod \in {"sl", "other"} => (o.volumeIncrease = 0 /\ (o.mod = "sl") = o.stopLoss) }
    \cup { [volume |-> 300, stopLoss |-> TRUE, takeProfit |-> FALSE, price |-> FALSE,
            pips |-> 20, mod |-> "sl", volumeIncrease |-> 0, comment |-> "SAITRAPP"] }

Params(op) == IF op = "modifyOrder" THEN Modifications ELSE Orders

\* account figures (balance, equity) a GET_ACCOUNT_INFO response can carry
AccountInfos == {<<10000, 10000>>, <<9600, 9600>>}

ProfileIds == {0, 1, 2}      \* 0: activateFXIFYMode() without a profile id

\* the history of a request (outcome, frame) is kept only while it is pending
concluded(a) ==
  [a EXCEPT !.outcome = [r \in ReqIds |-> IF r \in a.callbacks THEN a.outcome[r] ELSE "none"],
            !.settles = [r \in ReqIds |-> IF r \in a.callbacks THEN a.settles[r] ELSE 0],
            !.reqSock = [r \in ReqIds |-> IF r \in a.callbacks THEN a.reqSock[r] ELSE 0],
            !.wire = @ \cap a.callbacks]

\* the observations last one step
unobserved(g) ==
  [g EXCEPT !.call = NoCall, !.event = NoEvent, !.verdict = NoVerdict,
            !.mon = [NoMon EXCEPT !.seen = g.mon.seen]]

\* the step of the gated adapter that ends with adapter, manager and gate n
GateStep(n) ==
  /\ ad' = concluded(n.ad)
  /\ fx' = n.fx
  /\ gt' = unobserved(sweep(n.ad, n.gt))

\* the bridge accepts socket s; connect() of the gated adapter continues
GateSocketConnect(s) ==
  /\ ad.sockSt[s] = "connecting"
  /\ (ad.config \/ fx.isActive) => Fits(ad)
  /\ GateStep(withFx(afterConnect(ad, onConnect(ad, s), fx, gt), fx))

\* the step in which the response resp of request r resumed the gated adapter
Answered(n, r, resp, balance, equity) ==
  /\ ad' = concluded(n.ad)
  /\ fx' = n.fx
  /\ gt' = [sweep(n.ad, n.gt) EXCEPT
               !.call = NoCall,
               !.event =
                 [await |-> gt.await[r],
                  resp |-> resp,
                  active |-> fx.isActive,
                  fetched |-> \E q \in n.ad.callbacks \ ad.callbacks :
                                 n.ad.reqCmd[q] = "GET_ACCOUNT_INFO",
                  touched |-> n.fx # fx,
                  applied |-> (gt.await[r] = "acct_update" /\ resp = "ok")
                                => n.fx = updateBalance(fx, balance, equity, gt.today),
                  settled |-> FALSE,
                  successes |-> 0]]

\* the bridge sends the response of pending request r
GateData(s, r, resp, balance, equity) ==
  /\ ad.sockSt[s] \in {"open", "ended"}
  /\ r \in ad.callbacks
  /\ s = ad.reqSock[r]
  /\ (gt.await[r] \notin {"acct_update", "acct_seed"} \/ resp # "ok") => balance = 10000
  /\ (resp = "ok" /\ (gt.await[r] = "order" \/ (fx.isActive /\ ad.reqCmd[r] \in AuthCommands)))
       => Fits(ad)
  /\ Answered(afterResponse(afterConnect(ad, onData(ad, r, resp), fx, gt),
                            fx, r, resp, balance, equity),
              r, resp, balance, equity)

GatePeerClose(s) ==
  /\ ad.sockSt[s] \in {"open", "ended"}
  /\ ad' = concluded(onClose(ad, s))
  /\ gt' = unobserved(sweep(ad', gt))
  /\ UNCHANGED fx

GateRequestTimeout(r) ==
  /\ r \in ad.callbacks
  /\ ad' = concluded(onRequestTimeout(ad, r))
  /\ gt' = unobserved(sweep(ad', gt))
  /\ UNCHANGED fx

\* the frame respects the profile: volume within tradeSizeLimit (when the
\* profile has one) and the FXIFY tag in the comment
Bounded(profile, frame) ==
  /\ profile.tradeSizeLimit # 0 => frame.volume <= profile.tradeSizeLimit
  /\ frame.comment = "FXIFY"

\* the gated call returned or awaits the bridge; what an observer saw of it
Called(n, validation, op, order) ==
  /\ ad' = n.ad
  /\ gt' = [n.gt EXCEPT !.event = NoEvent, !.call =
               [op |-> "order",
                active |-> fx.isActive,
                connected |-> ad.connected,
                valid |-> validation.valid,
                wrote |-> n.ad.wire # ad.wire \/ n.ad.callbacks # ad.callbacks,
                consulted |-> n.gt.call.consulted,
                asPlain |-> fx.isActive
                              \/ (/\ n.ad = method(ad, Command(op))
                                  /\ n.ad.nextRequestId # ad.nextRequestId
                                       => n.frame = Frame(order)),
                bounded |-> (fx.isActive /\ n.ad.nextRequestId # ad.nextRequestId)
                              => (/\ Bounded(fx.activeProfile, n.frame)
                                  /\ callerOrder(fx, order) = order),
                clamped |-> /\ n.ad.nextRequestId # ad.nextRequestId
                            /\ n.frame.volume < order.volume,
                threw |-> validation.threw]]
  /\ UNCHANGED fx

Validated(op, order, validation) ==
  /\ Fits(ad) \/ ~ad.connected \/ ~validation.valid
  /\ Called(gated(ad, fx, gt, op, order, validation), validation, op, order)

\* the user calls a gated method; fault is the validation step that throws
\* in this call
GateCallThrowing(op, order, fault) ==
  Validated(op, order,
            IF fx.isActive THEN validationThrowing(fx, gt.today, op, order, fault)
            ELSE [valid |-> TRUE, rules |-> <<>>, threw |-> FALSE])

\* the user calls a gated method and no step of the validation throws
GateCall(op, order) == GateCallThrowing(op, order, "none")

Activate(profileId) ==
  /\ fx' = activateFXIFYMode(fx, profileId)
  /\ gt' = unobserved(gt)
  /\ UNCHANGED ad

Deactivate ==
  /\ fx' = deactivateFXIFYMode(fx, gt.today)
  /\ gt' = unobserved(gt)
  /\ UNCHANGED ad

\* midnight UTC passes
DayTick ==
  /\ gt.today < MaxDay
  /\ gt' = [unobserved(gt) EXCEPT !.today = @ + 1]
  /\ UNCHANGED <<ad, fx>>

GateInit ==
  /\ ad = NewAdapter("MT5", FALSE)
  /\ fx = NewManager
  /\ gt = NewGate

GateNext ==
  \/ CoopConnect
  \/ \E t \in Sockets : ReconnectTimer(t)
  \/ \E s \in Sockets : GateSocketConnect(s)
  \/ \E s \in Sockets : GatePeerClose(s)
  \/ \E s \in Sockets, r \in ReqIds, x \in Responses, i \in AccountInfos :
        GateData(s, r, x, i[1], i[2])
  \/ \E r \in ReqIds : GateRequestTimeout(r)
  \/ \E op \in GateOps : \E o \in Params(op) : GateCall(op, o)
  \/ \E p \in ProfileIds : Activate(p)
  \/ Deactivate
  \/ DayTick

GateSpec == GateInit /\ [][GateNext]_vars

\* --------------------------------------- the gate with a throwing validation
\* the gated adapter on a connection that stays up, with validation steps that
\* throw
\* a gated call; a step can throw only where the validator runs
ThrowingCall(op, order, fault) ==
  /\ fault # "none" => fx.isActive
  /\ GateCallThrowing(op, order, fault)

ThrowNext ==
  \/ CoopConnect
  \/ \E s \in Sockets : GateSocketConnect(s)
  \/ \E s \in Sockets, r \in ReqIds, x \in Responses, i \in AccountInfos :
        GateData(s, r, x, i[1], i[2])
  \/ \E op \in GateOps, fault \in Faults : \E o \in Params(op) : ThrowingCall(op, o, fault)
  \/ \E p \in ProfileIds : Activate(p)
  \/ DayTick

ThrowSpec == GateInit /\ [][ThrowNext]_vars

\* ------------------------------------------------- closing through the gate
\* request ids a run of the close methods may use
CloseBudget == MaxReq + MaxPos

\* account figures of the GET_ACCOUNT_INFO responses: no loss, and a loss
\* beyond the total drawdown limit of either profile
CloseAccountInfos == {<<10000, 10000>>, <<10000, 8900>>}

\* what an observer notes of a call of closePosition or closeAllPositions
closeCall(op, a, b, f) ==
  [NoCall EXCEPT !.op = op,
                 !.active = f.isActive,
                 !.connected = a.connected,
                 !.wrote = b.wire # a.wire \/ b.callbacks # a.callbacks,
                 !.asPlain = b = method(a, IF op = "closePosition" THEN "CLOSE_POSITION"
                                           ELSE "GET_POSITIONS")]

\* the user calls closePosition(positionId)
ClosePositionCall ==
  /\ ad.nextRequestId <= CloseBudget \/ ~ad.connected
  /\ ad' = closePosition(ad, gt).ad
  /\ gt' = [closePosition(ad, gt).gt EXCEPT
               !.event = NoEvent,
               !.call = closeCall("closePosition", ad, closePosition(ad, gt).ad, fx)]
  /\ UNCHANGED fx

\* the user calls closeAllPositions(), no other such call being in progress
CloseAllCall ==
  /\ gt.all.phase \in {"idle", "returned", "failed"}
  /\ ad.nextRequestId <= CloseBudget \/ ~ad.connected
  /\ ad' = closeAllPositions(ad, gt).ad
  /\ gt' = [closeAllPositions(ad, gt).gt EXCEPT
               !.event = NoEvent,
               !.call = closeCall("closeAllPositions", ad, closeAllPositions(ad, gt).ad, fx)]
  /\ UNCHANGED fx

\* what became of the closes, as the bridge saw it
Fate(g, n, r, how, cnt) ==
  IF g.await[r] = "close_all" THEN [n.gt.all.fate EXCEPT ![g.pos[r]] = how]
  ELSE IF g.await[r] = "get_positions" /\ how = "ok"
  THEN [i \in Positions |-> IF i > cnt THEN "none"
                            ELSE IF n.gt.all.results[i] = "pending" THEN "pending"
                            ELSE "unsent"]
  ELSE n.gt.all.fate

\* the step in which request r, settled with `how`, resumed the gated adapter
Resumed(n, r, how, cnt, balance, equity) ==
  /\ ad' = concluded(n.ad)
  /\ fx' = n.fx
  /\ gt' = [sweep(n.ad, n.gt) EXCEPT
               !.call = NoCall,
               !.all.fate = Fate(gt, n, r, how, cnt),
               !.all.listed = IF gt.await[r] = "get_positions" /\ how = "ok" THEN cnt ELSE @,
               !.event =
                 [await |-> gt.await[r],
                  resp |-> how,
                  active |-> fx.isActive,
                  fetched |-> \E q \in n.ad.callbacks \ ad.callbacks :
                                 n.ad.reqCmd[q] = "GET_ACCOUNT_INFO",
                  touched |-> n.fx # fx,
                  applied |-> (gt.await[r] \in {"acct_update", "acct_all"} /\ how = "ok")
                                => n.fx = updateBalance(fx, balance, equity, gt.today),
                  settled |-> /\ gt.await[r] \in {"get_positions", "close_all"}
                              /\ n.gt.all.phase \in {"refresh", "returned"},
                  successes |-> Cardinality({i \in Positions :
                                               Fate(gt, n, r, how, cnt)[i] = "ok"})]]

\* request ids the continuation of request r may allocate
Needs(g, r, cnt) ==
  IF g.await[r] = "get_positions" THEN cnt + 1
  ELSE IF g.await[r] \in {"close", "close_all"} THEN 1
  ELSE 0

\* the bridge answers pending request r: resp, the number of positions listed
\* and the account figures
CloseData(s, r, resp, cnt, balance, equity) ==
  /\ ad.sockSt[s] \in {"open", "ended"}
  /\ r \in ad.callbacks
  /\ s = ad.reqSock[r]
  /\ (gt.await[r] # "get_positions" \/ resp # "ok") => cnt = 0
  /\ (gt.await[r] \notin {"acct_update", "acct_seed", "acct_all"} \/ resp # "ok")
       => (balance = 10000 /\ equity = 10000)
  /\ ad.nextRequestId + Needs(gt, r, cnt) - 1 <= CloseBudget
  /\ Resumed(afterSettled([ad |-> onData(ad, r, resp), gt |-> gt],
                          fx, r, resp, cnt, balance, equity),
             r, resp, cnt, balance, equity)

\* the 30 s timer of pending request r fires
CloseRequestTimeout(r) ==
  /\ r \in ad.callbacks
  /\ ad.nextRequestId + Needs(gt, r, 0) - 1 <= CloseBudget
  /\ Resumed(afterSettled([ad |-> onRequestTimeout(ad, r), gt |-> gt],
                          fx, r, "timeout", 0, 10000, 10000),
             r, "timeout", 0, 10000, 10000)

CloseNext ==
  \/ CoopConnect
  \/ \E s \in Sockets : GateSocketConnect(s)
  \/ \E s \in Sockets, r \in ReqIds, x \in Responses, cnt \in 0..MaxPos,
        i \in CloseAccountInfos : CloseData(s, r, x, cnt, i[1], i[2])
  \/ \E r \in ReqIds : CloseRequestTimeout(r)
  \/ ClosePositionCall
  \/ CloseAllCall
  \/ \E p \in ProfileIds : Activate(p)
  \/ Deactivate
  \/ DayTick

CloseSpec == GateInit /\ [][CloseNext]_vars

\* ------------------------------------------------ the manager and its monitor
\* balances an account info can report, and (balance, equity) pairs: no loss,
\* a floating loss at and beyond the daily limit of 3%, at and beyond the total
\* limit of 6%, a realised loss, and a new peak with and without a floating loss
SeedBalances == {10000, 9700}
AccountFigures ==
  {<<10000, 10000>>, <<10000, 9700>>, <<10000, 9600>>, <<10000, 9400>>,
   <<9700, 9700>>, <<10300, 10300>>, <<10300, 9600>>}

\* initializeDrawdownMonitor(initialBalance) of the manager is called
MonitorSeed(initialBalance) ==
  /\ fx.isActive
  /\ fx' = initializeDrawdownMonitor(fx, initialBalance, gt.today)
  /\ gt' = [gt EXCEPT !.call = NoCall, !.event = NoEvent, !.verdict = NoVerdict,
                       !.mon = [op |-> "initialize", balance |-> initialBalance,
                                equity |-> initialBalance, seen |-> initialBalance,
                                again |-> FALSE]]
  /\ UNCHANGED ad

\* updateBalance(balance, equity) of the manager is called
MonitorUpdate(balance, equity) ==
  /\ fx.isActive
  /\ fx' = updateBalance(fx, balance, equity, gt.today)
  /\ gt' = [gt EXCEPT !.call = NoCall, !.event = NoEvent, !.verdict = NoVerdict,
                       !.mon = [op |-> "updateBalance", balance |-> balance,
                                equity |-> equity,
                                seen |-> IF balance > gt.mon.seen THEN balance
                                         ELSE gt.mon.seen,
                                again |-> /\ gt.mon.op = "updateBalance"
                                          /\ gt.mon.balance = balance
                                          /\ gt.mon.equity = equity]]
  /\ UNCHANGED ad

\* trade requests: volume in hundredths of a lot; no potential loss, one that
\* is not a number, 1% and 6% of a 10000 account
Requests ==
  [volume : {100, 300}, potentialLoss : {Num(0), NaN, Num(100), Num(600)}]

\* validateTradeAgainstRules(request) of the manager is called with a profile
\* active: rulesEngine.evaluateTradeRequest(request, activeProfile)
MonitorEvaluate(request, newsActive) ==
  /\ fx.isActive
  /\ fx.activeProfile # NoProfile
  /\ gt' = [unobserved(gt) EXCEPT !.verdict =
               [asked |-> TRUE, request |-> request,
                valid |-> evaluateTradeRequest(fx, gt.today, request, newsActive).valid,
                rules |-> evaluateTradeRequest(fx, gt.today, request, newsActive).rules]]
  /\ UNCHANGED <<ad, fx>>

MonitorNext ==
  \/ \E p \in ProfileIds : Activate(p)
  \/ Deactivate
  \/ DayTick
  \/ \E b \in SeedBalances : MonitorSeed(b)
  \/ \E i \in AccountFigures : MonitorUpdate(i[1], i[2])
  \/ \E q \in Requests, n \in BOOLEAN : MonitorEvaluate(q, n)

MonitorSpec == GateInit /\ [][MonitorNext]_vars

\* ------------------------------------------- the gate and account push events
\* the figures (balance, equity) of the account data an event or response carries
AccountData(d) == IF d = 1 THEN <<10000, 10000>> ELSE <<9600, 9600>>

\* the bridge pushes ACCOUNT_CHANGED with account data d on socket s: the
\* adapter overwrites its snapshot and emits 'account'; the gated adapter
\* registers no listener for it
AccountPush(s, d) ==
  /\ ad.sockSt[s] \in {"open", "ended"}
  /\ ad' = [_handleEventMT5(ad, "ACCOUNT_CHANGED", d) EXCEPT
               !.pushed = noted(@, "ACCOUNT_CHANGED", 1, d)]
  /\ gt' = unobserved(gt)
  /\ UNCHANGED fx

\* the bridge sends the response of pending request r, carrying account data d
AccountResponse(s, r, resp, d) ==
  /\ ad.sockSt[s] \in {"open", "ended"}
  /\ r \in ad.callbacks
  /\ s = ad.reqSock[r]
  /\ (gt.await[r] \notin {"acct_update", "acct_seed"} \/ resp # "ok") => d = 1
  /\ (resp = "ok" /\ gt.await[r] = "order") => Fits(ad)
  /\ LET n == afterResponse(afterConnect(ad, onData(ad, r, resp), fx, gt),
                            fx, r, resp, AccountData(d)[1], AccountData(d)[2])
     IN Answered([n EXCEPT !.ad = getAccountInfo(ad, @, r, resp, d)],
                 r, resp, AccountData(d)[1], AccountData(d)[2])

PushNext ==
  \/ CoopConnect
  \/ \E s \in Sockets : GateSocketConnect(s)
  \/ \E s \in Sockets, r \in ReqIds, x \in Responses, d \in Versions :
        AccountResponse(s, r, x, d)
  \/ \E s \in Sockets, d \in Versions : AccountPush(s, d)
  \/ \E op \in GateOps : \E o \in Params(op) : GateCall(op, o)
  \/ \E p \in ProfileIds : Activate(p)

PushSpec == GateInit /\ [][PushNext]_vars

\* ------------------------------------------------ the manager's profile store
\* the limits an updateProfile call gives (Absent: the field is left undefined)
ProfileUpdates ==
  [maxDailyDrawdown : {Absent, Frac(2, 100)}, maxTotalDrawdown : {Absent, Frac(4, 100)}]

CreateProfile(profileId) ==
  /\ fx' = createProfile(fx, profileId)
  /\ gt' = unobserved(gt)
  /\ UNCHANGED ad

UpdateProfile(profileId, profile) ==
  /\ fx' = updateProfile(fx, profileId, profile)
  /\ gt' = unobserved(gt)
  /\ UNCHANGED ad

DeleteProfile(profileId) ==
  /\ fx' = deleteProfile(fx, profileId, gt.today)
  /\ gt' = unobserved(gt)
  /\ UNCHANGED ad

ProfileNext ==
  \/ \E p \in ProfileIds : Activate(p)
  \/ Deactivate
  \/ \E b \in SeedBalances : MonitorSeed(b)
  \/ \E p \in ProfileIds : CreateProfile(p)
  \/ \E p \in ProfileIds \ {0}, u \in ProfileUpdates : UpdateProfile(p, u)
  \/ \E p \in DOMAIN LoadedProfiles : DeleteProfile(p)

ProfileSpec == GateInit /\ [][ProfileNext]_vars

\* ------------------------------------------------- orders in flight together
\* orders whose loss estimate is a number: no stop loss, or a stop loss and a price
PricedOrders == {o \in Orders : o.stopLoss => o.price}

\* placeMarketOrder(order) of the gated adapter, called while earlier orders
\* may still await the bridge; the loss estimated for an order that is sent is
\* kept with its request
FlightCall(order) ==
  /\ ad.nextRequestId <= MaxReq + 1
  /\ LET validation == validationThrowing(fx, gt.today, "placeMarketOrder", order, "none")
         n == gated(ad, fx, gt, "placeMarketOrder", order, validation)
     IN Called([n EXCEPT !.gt.risk[ad.nextRequestId] =
                            IF n.ad.nextRequestId # ad.nextRequestId
                            THEN potentialLoss(fx, order) ELSE @],
               validation, "placeMarketOrder", order)

FlightNext ==
  \/ CoopConnect
  \/ \E s \in Sockets : GateSocketConnect(s)
  \/ \E s \in Sockets, r \in ReqIds, x \in Responses, i \in AccountInfos :
        GateData(s, r, x, i[1], i[2])
  \/ \E o \in PricedOrders : FlightCall(o)
  \/ \E p \in ProfileIds : Activate(p)

FlightSpec == GateInit /\ [][FlightNext]_vars

\* --------------------------------------------------------- trading days
\* the most trades counted without a reset of the daily counter
MaxTrades == 3

\* registerTradingDay() of the rules engine on date `today`
registerTradingDay(e, today) ==
  IF today \notin e.tradingDaysHistory
  THEN [e EXCEPT !.tradingDaysHistory = @ \cup {today},
                 !.tradingDaysCompleted = @ + 1,
                 !.dailyTradeCount = 0]
  ELSE e

\* incrementTradeCount() of the rules engine on date `today`
incrementTradeCount(e, today) ==
  LET c == [e EXCEPT !.dailyTradeCount = @ + 1]
  IN IF c.dailyTradeCount = 1 THEN registerTradingDay(c, today) ELSE c

\* a trade is counted
IncrementTradeCount ==
  /\ fx.rulesEngine.dailyTradeCount < MaxTrades
  /\ fx' = [fx EXCEPT !.rulesEngine = incrementTradeCount(@, gt.today)]
  /\ gt' = [unobserved(gt) EXCEPT !.traded = @ \cup {gt.today}]
  /\ UNCHANGED ad

TradeNext ==
  \/ IncrementTradeCount
  \/ DayTick
  \/ \E p \in ProfileIds : Activate(p)
  \/ Deactivate

TradeSpec == GateInit /\ [][TradeNext]_vars

\* =================================================================== claims

\* C1: with FXIFY mode active, a gated call (placeMarketOrder, placePendingOrder,
\* modifyOrder) whose validation returns valid = false writes no frame and adds
\* no pending request, and returns the failure value with the violations
\* instead of throwing.
C1_InvalidOrderNotSent ==
  (gt.call.active /\ ~gt.call.valid) =>
     (~gt.call.wrote /\ gt.ret = "violation")

\* a gated call was rejected on a connected adapter with FXIFY active
C1_Witness ==
  /\ gt.call.active
  /\ gt.call.connected
  /\ ~gt.call.valid
  /\ gt.ret = "violation"

\* C2: each response frame settles exactly the one pending request whose
\* requestId it echoes (resolve on data, reject on error) and no other pending
\* request, whatever the arrival order; every request is settled at most once.
C2_ResponseSettlesItsRequest ==
  [][ /\ \A r \in ReqIds, x \in Responses :
           (r \in ad.callbacks /\ ad' = onData(ad, r, x)) =>
             /\ ad'.outcome[r] = (IF x = "error" THEN "error" ELSE "resolved")
             /\ r \notin ad'.callbacks
             /\ \A q \in ReqIds \ {r} :
                  /\ ad'.outcome[q] = ad.outcome[q]
                  /\ ad'.settles[q] = ad.settles[q]
                  /\ (q \in ad'.callbacks) = (q \in ad.callbacks)
      /\ \A q \in ReqIds : ad'.settles[q] <= 1 ]_vars

\* the response of request 2 arrived and resolved it while request 1 is pending
C2_Witness ==
  /\ ad.outcome[2] = "resolved"
  /\ ad.outcome[1] = "pending"
  /\ 1 \in ad.callbacks

\* C3: when a socket closes, every request pending at that moment is rejected
\* with 'Connection closed' and the pending map is empty afterwards; a
\* disconnect() waiting on the socket resolves in that same close, and a
\* request rejected by a close is never settled again.
C3_CloseRejectsAllPending ==
  [][ /\ \A s \in Sockets :
           (ad.sockSt[s] # "closed" /\ ad'.sockSt[s] = "closed") =>
             /\ ad'.callbacks = {}
             /\ \A r \in ad.callbacks : ad'.outcome[r] = "closed" /\ ad'.settles[r] = 1
      /\ \A s \in Sockets :
           ad'.discWait[s] < ad.discWait[s] =>
             /\ ad'.sockSt[s] = "closed"
             /\ ad'.callbacks = {}
             /\ \A r \in ad.callbacks : ad'.outcome[r] = "closed"
      /\ \A r \in ReqIds :
           ad.outcome[r] = "closed" =>
             ad'.outcome[r] = "closed" /\ ad'.settles[r] = ad.settles[r] ]_vars

\* a disconnect() made while connected has resolved through the close of its
\* socket, and that close rejected a pending request
C3_Witness ==
  /\ ad.kind = "MT5"
  /\ ad.discCalls = 1
  /\ ad.reconnectAttempts = maxReconnectAttempts("MT5")
  /\ ~ad.connected
  /\ \A s \in Sockets : ad.discWait[s] = 0
  /\ ad.callbacks = {}
  /\ \E r \in ReqIds : ad.outcome[r] = "closed"

\* C4: when the timer of a pending request fires, that request is rejected
\* with a timeout error and removed from the pending map, and no other pending
\* request is rejected or removed.
C4_TimeoutRejectsOnlyItsRequest ==
  [][ \A r \in ReqIds :
        (r \in ad.callbacks /\ ad' = onRequestTimeout(ad, r)) =>
          /\ ad'.outcome[r] = "timeout"
          /\ ad'.settles[r] = 1
          /\ r \notin ad'.callbacks
          /\ \A q \in ReqIds \ {r} :
               /\ ad'.outcome[q] = ad.outcome[q]
               /\ ad'.settles[q] = ad.settles[q]
               /\ (q \in ad'.callbacks) = (q \in ad.callbacks) ]_vars

\* request 1 timed out while request 2 stays pending
C4_Witness ==
  /\ ad.outcome[1] = "timeout"
  /\ ad.outcome[2] = "pending"
  /\ 2 \in ad.callbacks

\* C5: after disconnect() has been called, no automatic reconnect opens a
\* socket; a socket is opened again only by an explicit connect() call.
C5_NoReconnectAfterDisconnect ==
  [][ \A s \in Sockets :
        (ad.sockSt[s] = "none" /\ ad'.sockSt[s] = "connecting"
           /\ ad'.sockOrigin[s] = "auto") => ~ad.discCalled ]_vars

\* C6: every close of a socket that had reached Connected or was a reconnect
\* attempt, not caused by disconnect() and with reconnectAttempts below the
\* maximum, schedules exactly one reconnect with delay baseDelay times the
\* incremented counter; in every other case no reconnect is scheduled.
C6_CloseSchedulesReconnect ==
  [][ \A s \in Sockets :
        (ad.sockSt[s] # "closed" /\ ad'.sockSt[s] = "closed"
           /\ (ad.sockWasConn[s] \/ ad.sockOrigin[s] = "auto")) =>
          IF ~ad.sockByDisc[s] /\ ad.reconnectAttempts < maxReconnectAttempts(ad.kind)
          THEN /\ ad'.rtimers = ad.rtimers \cup {s}
               /\ ad'.reconnectAttempts = ad.reconnectAttempts + 1
               /\ ad'.rtDelay[s] = reconnectDelay(ad.kind) * ad'.reconnectAttempts
          ELSE ad'.rtimers = ad.rtimers ]_vars

C8_MethodsRequireConnected ==
  [][ \A c \in MethodCommands :
        (ad' = method(ad, c) /\ State(ad) # "Connected") =>
          (ad'.callbacks = ad.callbacks /\ ad'.wire = ad.wire) ]_vars

\* C9: against a cooperative bridge, connect() called from Idle on the MT5 or
\* the MT4 adapter, with or without credentials, eventually resolves with
\* success and leaves the adapter connected (unless the user disconnects
\* meanwhile).
C9_ConnectEventuallyResolves ==
  (ad.kind \in {"MT5", "MT4"} /\ ad.connectRes[1] = "pending")
     ~> ((ad.connectRes[1] = "resolved" /\ ad.connected) \/ ad.discCalls > 0)

\* C10: every disconnect() call made while Connected eventually resolves,
\* even when the peer never closes its side of the socket.
C10_DisconnectEventuallyResolves ==
  \A s \in Sockets : (s \in ad.userDisc) ~> (s \notin ad.userDisc)

\* C11: however the inbound stream is cut into chunks, the messages the 'data'
\* handler processes are exactly the delimiter-terminated frames of the bytes
\* received so far, each once and in order.
C11_FramesReassembled ==
  ad.parsed = Frames(SubSeq(ad.peerWrote, 1, ad.delivered))

\* what a 'data' event has in hand: the chunk, after the buffered bytes
Text(a, data) == a.messageBuffer \o data

WellFormed(message) == requestIdOf(message) # 0

RECURSIVE Join(_)
Join(messages) ==
  IF messages = <<>> THEN <<>>
  ELSE Head(messages) \o <<Delimiter>> \o Join(Tail(messages))

\* the text without the messages that fail to parse; what follows the last
\* delimiter is kept when the handler would buffer it
Clean(k, text) ==
  Join(SelectSeq(SubSeq(split(text, <<>>, <<>>), 1, Len(split(text, <<>>, <<>>)) - 1),
                 WellFormed))
    \o (IF k = "IB" \/ WellFormed(split(text, <<>>, <<>>)[Len(split(text, <<>>, <<>>))])
        THEN split(text, <<>>, <<>>)[Len(split(text, <<>>, <<>>))]
        ELSE <<>>)

Quiet(a) == [a EXCEPT !.parsed = <<>>, !.delivered = 0]

\* C12: a 'data' event leaves the adapter (connection flags, sockets, pending
\* requests and their outcomes, timers, queue) exactly as the same event
\* without its malformed messages would, so a malformed message changes
\* nothing and closes nothing; and every well-formed response in the event
\* whose request was pending is resolved, malformed messages before it or not.
C12_MalformedFrameDropped ==
  [][ \A k \in 1..(3 * MaxFrames) :
        (k <= Len(ad.peerWrote) - ad.delivered /\ ad' = received(ad, k)) =>
          /\ Quiet(ad') = Quiet(handleData([ad EXCEPT !.messageBuffer = <<>>],
                                           Clean(ad.kind, Text(ad, chunk(ad, k)))))
          /\ \A r \in ad.callbacks :
               (ad.kind # "IB"
                  /\ \E i \in 1..Len(split(chunk(ad, k), <<>>, <<>>)) :
                       split(chunk(ad, k), <<>>, <<>>)[i] = <<Opening, r>>)
                 => (r \notin ad'.callbacks /\ ad'.outcome[r] = "resolved") ]_vars

\* a message that failed to parse was followed by the response of a pending
\* request, which was resolved; the socket is still open
C12_Witness ==
  /\ ad.connected
  /\ ad.sockSt[ad.socket] = "open"
  /\ \E i, j \in 1..Len(ad.parsed) :
       /\ i < j
       /\ ~WellFormed(ad.parsed[i])
       /\ WellFormed(ad.parsed[j])
       /\ ad.outcome[requestIdOf(ad.parsed[j])] = "resolved"

\* C13: a gated call made while FXIFY mode is inactive leaves the adapter as
\* the parent's method alone would, its frame carries the caller's volume and
\* comment, and the validator is not called; the Drawdown Monitor is touched
\* neither by the call nor when the response of such a call arrives, and no
\* account info is fetched for it.
C13_InactiveDelegatesUnchanged ==
  /\ ~gt.call.active => (gt.call.asPlain /\ ~gt.call.consulted /\ ~gt.call.clamped)
  /\ gt.event.await = "plain" => (~gt.event.touched /\ ~gt.event.fetched)

\* an order went out untouched while FXIFY mode was inactive
C13_Witness ==
  /\ ~gt.call.active
  /\ gt.call.wrote
  /\ gt.call.asPlain
  /\ \E r \in ad.callbacks : gt.await[r] = "plain"

\* C14: every frame the gated adapter delegates while FXIFY mode is active
\* carries the FXIFY tag in its comment and, when the active profile has a
\* tradeSizeLimit, a volume not above it; the caller's order object is as it
\* was before the call.
C14_DelegatedFrameBounded ==
  gt.call.bounded

\* a modification carrying 3 lots was delegated with the volume clamped to the
\* 2 lots of the active profile
C14_Witness ==
  /\ gt.call.active
  /\ gt.call.wrote
  /\ gt.call.clamped
  /\ gt.call.bounded
  /\ fx.activeProfile.tradeSizeLimit = 200

\* C15: while FXIFY mode is active, when the bridge reports success for an
\* approved placeMarketOrder, placePendingOrder or modifyOrder, account info
\* is requested, and the response to that request is applied to the Drawdown
\* Monitor with updateBalance.
C15_RefreshAfterApprovedOrder ==
  /\ (gt.event.active /\ gt.event.resp = "ok" /\ gt.event.await \in {"order", "approved"})
       => gt.event.fetched
  /\ gt.event.applied

C17_CloseAllAggregates ==
  gt.all.phase = "returned" =>
    /\ \A i \in Positions : (i <= gt.all.listed) = (gt.all.fate[i] \notin {"none", "pending"})
    /\ gt.all.ret.details = gt.all.listed
    /\ gt.all.ret.total = gt.all.listed
    /\ gt.all.ret.closed = Cardinality({i \in Positions : gt.all.fate[i] = "ok"})
    /\ gt.all.ret.success = (gt.all.ret.closed = gt.all.listed)

\* of two positions the first close succeeded and the second was rejected
C17_Witness ==
  /\ gt.all.phase = "returned"
  /\ gt.all.listed = 2
  /\ gt.all.fate[1] = "ok"
  /\ gt.all.fate[2] \in {"error", "timeout"}
  /\ gt.all.ret = [success |-> FALSE, closed |-> 1, total |-> 2, details |-> 2]

\* C18: within one FXIFY activation the Drawdown Monitor is seeded once: once
\* its initialBalance is set, no step in which the mode stays active (a
\* connect() call, an automatic reconnect, any response) sets it anew.
C18_SeededOncePerActivation ==
  [][ (/\ fx.isActive
       /\ fx'.isActive
       /\ fx.rulesEngine.drawdownMonitor.initialBalance # 0)
        => fx'.rulesEngine.drawdownMonitor.initialBalance
             = fx.rulesEngine.drawdownMonitor.initialBalance ]_vars

\* the loss the stop-loss distance of an order stands for (volume x pips x
\* the default pip value), and 1% of the account size without a stop loss
estimatedLoss(f, order) ==
  IF order.volume # 0 /\ order.stopLoss
  THEN Frac(order.volume * order.pips * 10, 100)
  ELSE Frac(_getAccountSize(f), 100)

\* the loss, as a share of the account, on top of the current daily or total
\* drawdown is past the limit of the active profile
pastLimit(f, today, loss) ==
  LET m == f.rulesEngine.drawdownMonitor
      share == Div(loss, Num(_getAccountSize(f)))
  IN \/ Gt(Plus(getCurrentDailyDrawdown(m, today), share), f.activeProfile.maxDailyDrawdown)
     \/ Gt(Plus(m.totalDrawdown, share), f.activeProfile.maxTotalDrawdown)

\* C19: with FXIFY active, validateOrder answers valid = false for every
\* order, with or without a price field, whose estimated loss (from the
\* stop-loss distance when stopLoss is set, 1% of the balance otherwise) would
\* push the daily or the total drawdown past the limit of the active profile.
C19_RiskyOrderRejected ==
  \A o \in Orders :
    (fx.isActive /\ pastLimit(fx, gt.today, estimatedLoss(fx, o)))
      => ~validateOrder(fx, gt.today, o, FALSE).valid

\* C20: when a step of the validation of an order throws (checkDrawdownLimits,
\* checkTradingHours, checkNewsEvents or a rule evaluator), the validation
\* result is valid = false and the order is not sent to the bridge.
C20_ExceptionNeverApproves ==
  (gt.call.op = "order" /\ gt.call.active /\ gt.call.threw)
    => (~gt.call.valid /\ ~gt.call.wrote)

\* C21 as stated: on a seeded monitor, isDailyLimitExceeded() is true exactly
\* when (startOfDayBalance - currentEquity) / startOfDayBalance is strictly
\* greater than the daily limit, and isTotalLimitExceeded() exactly when
\* (peakBalance - currentEquity) / peakBalance is strictly greater than the
\* total limit; at equality both are false.
C21_LimitExceededExactly ==
  LET m == fx.rulesEngine.drawdownMonitor
  IN (fx.isActive /\ m.initialBalance # 0) =>
       /\ isDailyLimitExceeded(m, gt.today)
            <=> Gt(Frac(m.startOfDayBalance - m.currentEquity, m.startOfDayBalance),
                   m.maxDailyDrawdown)
       /\ isTotalLimitExceeded(m)
            <=> Gt(Frac(m.peakBalance - m.currentEquity, m.peakBalance),
                   m.maxTotalDrawdown)

\* C22: when updateBalance(balance, equity) is the first update after the UTC
\* date has advanced, the new day's startOfDayBalance is the currentBalance
\* held before the call, not the balance argument.
C22_DayStartIsPreviousBalance ==
  [][ (/\ gt'.mon.op = "updateBalance"
       /\ fx.rulesEngine.drawdownMonitor.initialBalance # 0
       /\ gt.today # fx.rulesEngine.drawdownMonitor.lastUpdate)
        => fx'.rulesEngine.drawdownMonitor.startOfDayBalance
             = fx.rulesEngine.drawdownMonitor.currentBalance ]_vars

\* C23: between initialize and the next reset, every updateBalance call leaves
\* peakBalance no lower than before, at least the balance supplied, and at
\* least every balance observed since initialize.
C23_PeakNeverDrops ==
  [][ (/\ gt'.mon.op = "updateBalance"
       /\ fx.rulesEngine.drawdownMonitor.initialBalance # 0)
        => /\ fx'.rulesEngine.drawdownMonitor.peakBalance
                >= fx.rulesEngine.drawdownMonitor.peakBalance
           /\ fx'.rulesEngine.drawdownMonitor.peakBalance >= gt'.mon.balance
           /\ fx'.rulesEngine.drawdownMonitor.peakBalance >= gt'.mon.seen ]_vars

\* after initialize(10000): a new peak of 10300 was supplied, then a lower
\* balance, and the peak still stands at 10300
C23_Witness ==
  /\ fx.isActive
  /\ fx.rulesEngine.drawdownMonitor.initialBalance = 10000
  /\ gt.mon.op = "updateBalance"
  /\ gt.mon.balance = 9700
  /\ gt.mon.seen = 10300
  /\ fx.rulesEngine.drawdownMonitor.peakBalance = 10300

\* C24: an updateBalance call that repeats the (balance, equity) pair of the
\* call before it, within the same UTC day, leaves the daily drawdown, the
\* total drawdown, peakBalance and startOfDayBalance as the first call left
\* them.
C24_UpdateIdempotent ==
  [][ gt'.mon.again =>
        /\ getCurrentDailyDrawdown(fx'.rulesEngine.drawdownMonitor, gt'.today)
             = getCurrentDailyDrawdown(fx.rulesEngine.drawdownMonitor, gt.today)
        /\ fx'.rulesEngine.drawdownMonitor.totalDrawdown
             = fx.rulesEngine.drawdownMonitor.totalDrawdown
        /\ fx'.rulesEngine.drawdownMonitor.peakBalance
             = fx.rulesEngine.drawdownMonitor.peakBalance
        /\ fx'.rulesEngine.drawdownMonitor.startOfDayBalance
             = fx.rulesEngine.drawdownMonitor.startOfDayBalance ]_vars

\* updateBalance(10000, 9600) was repeated on a monitor seeded with 10000
C24_Witness ==
  /\ fx.isActive
  /\ gt.mon.again
  /\ gt.mon.equity = 9600
  /\ fx.rulesEngine.drawdownMonitor.initialBalance = 10000
  /\ fx.rulesEngine.drawdownMonitor.totalDrawdown = Frac(4, 100)
  /\ getCurrentDailyDrawdown(fx.rulesEngine.drawdownMonitor, gt.today) = Frac(4, 100)

\* C25: after FXIFY deactivation, and after a switch of the active profile
\* while the mode is active, the monitor holds no state of the previous
\* profile: no per-day drawdown, total drawdown 0, and the initial, peak and
\* start-of-day balances cleared.
C25_MonitorClearedOnSwitch ==
  [][ ((fx.isActive /\ ~fx'.isActive)
       \/ (fx.isActive /\ fx'.isActive /\ fx'.activeProfile.id # fx.activeProfile.id))
        => /\ \A d \in Days : fx'.rulesEngine.drawdownMonitor.dailyDrawdowns[d] = Absent
           /\ fx'.rulesEngine.drawdownMonitor.totalDrawdown = Num(0)
           /\ fx'.rulesEngine.drawdownMonitor.initialBalance = 0
           /\ fx'.rulesEngine.drawdownMonitor.peakBalance = 0
           /\ fx'.rulesEngine.drawdownMonitor.startOfDayBalance = 0 ]_vars

\* C26 (as stated): with FXIFY active and a profile set, on a Saturday or
\* Sunday (UTC) checkTradingHours fails with rule 'trading_hours',
\* validateOrder returns that very result for every order, and a gated call
\* that wrote a frame was not placeMarketOrder / placePendingOrder; on the
\* other days checkTradingHours passes
C26_WeekendBlocksOrders ==
  (fx.isActive /\ fx.activeProfile # NoProfile)
    => /\ \A d \in 1..7 :
            IF getUTCDay(d) \in {0, 6}
            THEN checkTradingHours(fx, d) = Fail("trading_hours")
            ELSE checkTradingHours(fx, d).valid
       /\ getUTCDay(gt.today) \in {0, 6}
            => /\ \A o \in Orders, n \in BOOLEAN :
                    validateOrder(fx, gt.today, o, n) = checkTradingHours(fx, gt.today)
               /\ (gt.call.op = "order" /\ gt.call.wrote)
                    => ad.reqCmd[ad.nextRequestId - 1] # "PLACE_ORDER"

\* C26 (amended): on a weekend day validateOrder rejects every order, with
\* the 'trading_hours' result whenever checkDrawdownLimits let the order
\* through and with the result of checkDrawdownLimits otherwise, and a gated
\* call that wrote a frame was not one of the two place methods;
\* checkTradingHours fails exactly on weekend days
C26_WeekendRejectsOrders ==
  (fx.isActive /\ fx.activeProfile # NoProfile)
    => /\ \A d \in 1..7 :
            IF getUTCDay(d) \in {0, 6}
            THEN checkTradingHours(fx, d) = Fail("trading_hours")
            ELSE checkTradingHours(fx, d).valid
       /\ getUTCDay(gt.today) \in {0, 6}
            => /\ \A o \in Orders, n \in BOOLEAN :
                    LET dd == checkDrawdownLimits(fx, gt.today, potentialLoss(fx, o))
                    IN validateOrder(fx, gt.today, o, n)
                         = IF dd.valid THEN Fail("trading_hours") ELSE dd
               /\ (gt.call.op = "order" /\ gt.call.wrote)
                    => ad.reqCmd[ad.nextRequestId - 1] # "PLACE_ORDER"

\* an order placed on a Saturday over a connected adapter was turned down
\* although its estimated loss was within the drawdown limits
C26_Witness ==
  /\ gt.call.op = "order"
  /\ gt.call.active /\ gt.call.connected /\ gt.call.consulted
  /\ fx.activeProfile # NoProfile
  /\ getUTCDay(gt.today) = 6
  /\ ~gt.call.valid /\ ~gt.call.wrote
  /\ gt.ret = "violation"
  /\ \E o \in Orders : checkDrawdownLimits(fx, gt.today, potentialLoss(fx, o)).valid

\* C27: with FXIFY active and a profile that forbids news trading,
\* validateOrder rejects every order with a 'news_trading' violation while the
\* economic calendar reports a high-impact event active for its symbol; with a
\* profile that allows news trading no result of validateOrder carries a
\* 'news_trading' violation
C27_NewsEventBlocksOrder ==
  (fx.isActive /\ fx.activeProfile # NoProfile)
    => \A o \in Orders :
         IF fx.activeProfile.allowNewsTrading
         THEN \A n \in BOOLEAN :
                \A i \in DOMAIN validateOrder(fx, gt.today, o, n).rules :
                  validateOrder(fx, gt.today, o, n).rules[i].rule # "news_trading"
         ELSE /\ ~validateOrder(fx, gt.today, o, TRUE).valid
              /\ \E i \in DOMAIN validateOrder(fx, gt.today, o, TRUE).rules :
                   validateOrder(fx, gt.today, o, TRUE).rules[i].rule = "news_trading"

\* C28: the result of evaluateTradeRequest lists one violation for every
\* evaluator that answered valid=false and one warning for every evaluator
\* that answered with a warning, and nothing else; it is valid exactly when no
\* evaluator answered valid=false, so a warning alone (drawdown at the
\* 'critical' level, no limit exceeded) leaves the request valid
C28_AllEvaluatorsAggregated ==
  gt.verdict.asked =>
    LET request == gt.verdict.request
        answer == [name \in {"drawdown_limit", "trade_size_limit", "news_trading",
                             "trading_days"} |->
                     CASE name = "drawdown_limit" -> drawdown_limit(fx, gt.today, request)
                       [] name = "trade_size_limit" -> trade_size_limit(fx, request)
                       [] name = "news_trading" -> news_trading(fx, request, FALSE)
                       [] OTHER -> trading_days(fx, request)]
        rules == gt.verdict.rules
        listed(name, severity) ==
          Cardinality({i \in DOMAIN rules : rules[i] = Rule(name, severity)})
    IN /\ \A name \in DOMAIN answer :
            /\ listed(name, "error") = IF answer[name] = "error" THEN 1 ELSE 0
            /\ listed(name, "warning") = IF answer[name] = "warning" THEN 1 ELSE 0
       /\ Len(rules) = Cardinality({name \in DOMAIN answer : answer[name] # "ok"})
       /\ gt.verdict.valid <=> \A name \in DOMAIN answer : answer[name] # "error"
       /\ (\A i \in DOMAIN rules : rules[i].severity = "warning") => gt.verdict.valid

\* two evaluators turned the request down and both violations are listed
C28_TwoViolations ==
  /\ gt.verdict.asked
  /\ ~gt.verdict.valid
  /\ gt.verdict.rules = <<Rule("drawdown_limit", "error"), Rule("trade_size_limit", "error")>>

\* the drawdown stands at a limit without exceeding it: the request is valid
\* and carries the warning
C28_Witness ==
  /\ gt.verdict.asked
  /\ gt.verdict.valid
  /\ gt.verdict.rules = <<Rule("drawdown_limit", "warning")>>
  /\ getWarningLevel(fx.rulesEngine.drawdownMonitor, gt.today) = "critical"
  /\ ~isDailyLimitExceeded(fx.rulesEngine.drawdownMonitor, gt.today)
  /\ ~isTotalLimitExceeded(fx.rulesEngine.drawdownMonitor)

C30_CachesFollowEvents ==
  /\ \A p \in Positions :
       /\ ad.positions[p] = ad.pushed.positions[p]
       /\ ad.orders[p] = ad.pushed.orders[p]
  /\ ad.accountInfo = ad.pushed.account

\* C31: while FXIFY is active, an order is validated against a monitor that
\* holds the balance and equity of the latest account snapshot the adapter
\* has received
C31_ValidationUsesLatestSnapshot ==
  (/\ gt.call.op = "order" /\ gt.call.active /\ gt.call.consulted
   /\ fx.rulesEngine.drawdownMonitor.initialBalance # 0
   /\ ad.accountInfo # 0)
    => /\ fx.rulesEngine.drawdownMonitor.currentBalance = AccountData(ad.accountInfo)[1]
       /\ fx.rulesEngine.drawdownMonitor.currentEquity = AccountData(ad.accountInfo)[2]

\* C32: whenever an order is validated with FXIFY active and the adapter
\* connected, the monitor has been seeded: initialBalance and
\* startOfDayBalance are positive
C32_SeededWhenValidating ==
  (/\ gt.call.op = "order" /\ gt.call.active /\ gt.call.connected /\ gt.call.consulted
   /\ fx.activeProfile # NoProfile)
    => /\ fx.rulesEngine.drawdownMonitor.initialBalance > 0
       /\ fx.rulesEngine.drawdownMonitor.startOfDayBalance > 0

\* C33: while FXIFY is active and the monitor is seeded, the monitor's limits
\* are the limits of the active profile
C33_MonitorLimitsFollowProfile ==
  (fx.isActive /\ fx.rulesEngine.drawdownMonitor.initialBalance # 0)
    => /\ fx.rulesEngine.drawdownMonitor.maxDailyDrawdown = fx.activeProfile.maxDailyDrawdown
       /\ fx.rulesEngine.drawdownMonitor.maxTotalDrawdown = fx.activeProfile.maxTotalDrawdown

\* C34: whenever FXIFY mode is active, the active profile is set, its id is
\* in the profile store and the store holds that very profile under the id
C34_ActiveProfileIsStored ==
  fx.isActive
    => /\ fx.activeProfile # NoProfile
       /\ fx.userProfiles[fx.activeProfile.id] # NoProfile
       /\ fx.userProfiles[fx.activeProfile.id] = fx.activeProfile

\* C35: at every moment at most one socket of the adapter is connecting or
\* open
C35_OneLiveSocket ==
  Cardinality({s \in Sockets : ad.sockSt[s] \in {"connecting", "open", "ended"}}) <= 1

\* the losses estimated for the orders of the requests in rs, added up
RECURSIVE combinedLoss(_, _)
combinedLoss(g, rs) ==
  IF rs = {} THEN Num(0)
  ELSE LET r == CHOOSE x \in rs : TRUE
       IN Plus(g.risk[r], combinedLoss(g, rs \ {r}))

\* C36: when placeMarketOrder sends an order with FXIFY active and the monitor
\* seeded, the estimated losses of all orders then in flight, taken together,
\* keep the daily and the total drawdown within the limits of the profile
C36_OrdersInFlightWithinLimits ==
  (/\ gt.call.op = "order" /\ gt.call.active /\ gt.call.wrote
   /\ fx.activeProfile # NoProfile
   /\ fx.rulesEngine.drawdownMonitor.initialBalance # 0)
    => LET m == fx.rulesEngine.drawdownMonitor
           loss == combinedLoss(gt, {r \in ad.callbacks : gt.await[r] = "order"})
       IN /\ ~Gt(Plus(getCurrentDailyDrawdown(m, gt.today),
                      Div(loss, Num(m.startOfDayBalance))),
                 fx.activeProfile.maxDailyDrawdown)
          /\ ~Gt(Plus(m.totalDrawdown, Div(loss, Num(m.initialBalance))),
                 fx.activeProfile.maxTotalDrawdown)

C38_QueueKeepsOrderAndDropsOnClose ==
  [][ ad.kind = "MT4" =>
        /\ \A r \in ad'.wire \ ad.wire :
              /\ ad.outcome[r] \in {"none", "pending"}
              /\ \A q \in ad.wire : q < r
              /\ \A i \in 1..Len(ad'.messageQueue) : r < ad'.messageQueue[i]
        /\ \A s \in Sockets :
              (ad.sockSt[s] # "closed" /\ ad'.sockSt[s] = "closed")
                 => ad'.messageQueue = <<>> ]_vars

\* C39 concerns the force-close timer that the MT4 disconnect() arms.  No
\* behaviour arms it: connected is never set on the MT4 adapter, so every
\* disconnect() returns at its first test and the case of C39 is not reached.
C39_ForceCloseNeverArmed ==
  ad.kind = "MT4" => (~ad.connected /\ ad.ftimers = 0 /\ ~ad.explicitDisconnect)

\* C40: tradingDaysCompleted equals the number of distinct UTC dates on which
\* incrementTradeCount ran: no date twice, and the first trade of every new
\* date counted
C40_TradingDaysAreDistinctDates ==
  fx.rulesEngine.tradingDaysCompleted = Cardinality(gt.traded)

====
